---- MODULE Spec2Model ----
(***************************************************************************)
(* Record lifecycle and index maintenance of walrus (walrus/models.py)     *)
(* over a Redis keyspace.                                                  *)
(*                                                                         *)
(* The schema that is modelled is the one of walrus/tests.py, lines 46-48, *)
(* with the stemmer switched off (the Porter stemmer is a collaborator):   *)
(*                                                                         *)
(*     class Message(Model):                                               *)
(*         content = TextField(fts=True, stemmer=False)                    *)
(*         status = IntegerField(index=True)                               *)
(*                                                                         *)
(* so the model class gets the implicit primary key _id, an                *)
(* AutoIncrementField.  The keyspace is one function from key names to     *)
(* values, as in Redis: a set is a set of members, a sorted set a function *)
(* from members to scores, a hash a function from field names to raw       *)
(* strings, a counter a raw string.  A container that becomes empty        *)
(* ceases to exist, as in Redis.                                           *)
(*                                                                         *)
(* Every handler is a little program over store commands: Step runs one    *)
(* store command (or one local step) of a handler, Run runs a handler to   *)
(* its end.  The sequential specification applies Run in one action, the   *)
(* concurrent specifications interleave Step of several callers.           *)
(***************************************************************************)
EXTENDS Integers, Sequences, FiniteSets, TLC

VARIABLES db, last, procs, ttl

vars == <<db, last, procs, ttl>>

---------------------------------------------------------------------------
(* Bounds of the model. *)

\* Largest primary key: the sequence is not incremented past it and
\* explicitly assigned keys are drawn from 1..MaxId.
MaxId == 2

\* Largest integer with a decimal string in the model.
MaxInt == 12

\* Number of concurrent callers in the concurrent specifications.
NumCallers == 2

\* Largest number of tokens of a query string given to parse().
MaxTokens == 4

---------------------------------------------------------------------------
(* Values and their conversions. *)

Digit == <<"0", "1", "2", "3", "4", "5", "6", "7", "8", "9">>

\* str(n) of a natural number below 100: what redis-py sends for an int
\* and what make_key puts in a key name.
Str(n) ==
    IF n < 10 THEN Digit[n + 1]
    ELSE Digit[(n \div 10) + 1] \o Digit[(n % 10) + 1]

\* int(s) of a decimal string.
ParseInt(s) == CHOOSE n \in 0..MaxInt : Str(n) = s

PkField == "_id"

FieldNames == <<"_id", "status", "content">>

FieldSet == {FieldNames[i] : i \in 1..Len(FieldNames)}

\* "auto": AutoIncrementField, "int": IntegerField, "text": TextField.
\* hits is the IntegerField() without index=True of the instances that
\* carry a counter; it is among neither FieldNames nor Indexes.
FieldType(f) ==
    CASE f = "_id" -> "auto"
      [] f = "status" -> "int"
      [] f = "content" -> "text"
      [] f = "hits" -> "int"

IsScalar(f) == FieldType(f) \in {"auto", "int"}

\* TextField(fts=True) on content.
HasFts(f) == f = "content"

\* BaseModel.__new__: the fields with _index set, in iteration order.
Indexes == <<"_id", "status", "content">>

\* Field.get_indexes / _ScalarField.get_indexes / TextField.get_indexes.
GetIndexes(f) ==
    IF IsScalar(f) THEN <<"absolute", "continuous">>
    ELSE IF HasFts(f) THEN <<"absolute", "fts">>
    ELSE <<"absolute">>

\* Field.db_value: _coerce = int for the integer fields (the in-memory
\* values of the model are integers already); TextField encodes to UTF-8.
DbValue(f, v) == v

\* What the store keeps for a value the client sends: its string.
Encode(f, v) == IF IsScalar(f) THEN Str(v) ELSE v

\* Field.python_value: int(raw) for the integer fields, decode for text.
PythonValue(f, raw) == IF IsScalar(f) THEN ParseInt(raw) ELSE raw

\* str(value) as make_key formats a part of a key name.
StrOf(f, v) == IF IsScalar(f) THEN Str(v) ELSE v

---------------------------------------------------------------------------
(* Key names. *)

BaseKey == "message:"

Separator == "."

RECURSIVE Join(_)
Join(parts) ==
    IF Len(parts) = 1 THEN parts[1]
    ELSE parts[1] \o Separator \o Join(Tail(parts))

MakeKey(parts) == BaseKey \o Join(parts)

GetPrimaryHashKey(pk) == MakeKey(<<"id", StrOf(PkField, DbValue(PkField, pk))>>)

AllKey == MakeKey(<<"all">>)

SeqKey == MakeKey(<<PkField, "_sequence">>)

AbsKey(f, v) == MakeKey(<<f, "absolute", StrOf(f, v)>>)

ContKey(f) == MakeKey(<<f, "continuous">>)

FtsKey(f, word) == MakeKey(<<f, "fts", word>>)

---------------------------------------------------------------------------
(* The store: Redis commands on the keyspace d. *)

Exists(d, k) == k \in DOMAIN d

Del(d, k) == [x \in (DOMAIN d) \ {k} |-> d[x]]

Put(d, k, v) == (k :> v) @@ d

SMembers(d, k) == IF k \in DOMAIN d THEN d[k] ELSE {}

SCard(d, k) == Cardinality(SMembers(d, k))

SAdd(d, k, m) == Put(d, k, SMembers(d, k) \cup {m})

SRem(d, k, m) ==
    IF SMembers(d, k) \ {m} = {} THEN Del(d, k)
    ELSE Put(d, k, SMembers(d, k) \ {m})

ZScores(d, k) == IF k \in DOMAIN d THEN d[k] ELSE <<>>

ZCard(d, k) == Cardinality(DOMAIN ZScores(d, k))

ZAdd(d, k, m, s) == Put(d, k, (m :> s) @@ ZScores(d, k))

ZRem(d, k, m) ==
    LET z == ZScores(d, k)
        rest == (DOMAIN z) \ {m}
    IN  IF rest = {} THEN Del(d, k)
        ELSE Put(d, k, [x \in rest |-> z[x]])

HGetAll(d, k) == IF k \in DOMAIN d THEN d[k] ELSE <<>>

HMSet(d, k, h) == Put(d, k, h @@ HGetAll(d, k))

\* INCR and HINCRBY answer the new value.
IncrValue(d, k) == IF k \in DOMAIN d THEN ParseInt(d[k]) + 1 ELSE 1

Incr(d, k) == Put(d, k, Str(IncrValue(d, k)))

HIncrByValue(d, k, f, n) ==
    IF f \in DOMAIN HGetAll(d, k) THEN ParseInt(HGetAll(d, k)[f]) + n ELSE n

HIncrBy(d, k, f, n) == HMSet(d, k, (f :> Str(HIncrByValue(d, k, f, n))))

EmptyDb == <<>>

---------------------------------------------------------------------------
(* Full-text tokenizer (FullTextIndex.tokenize). *)

\* The texts a content field takes in the model.
Texts == {"", "huey", "Huey the huey message"}

\* str.lower().
Lower(text) ==
    CASE text = "" -> ""
      [] text = "huey" -> "huey"
      [] text = "Huey the huey message" -> "huey the huey message"
      [] text = "message" -> "message"
      [] text = "Message huey" -> "message huey"
      [] text = "the" -> "the"
      [] text = "and" -> "and"

\* split_phrase: symbols to blanks, split on white space.
SplitPhrase(text) ==
    CASE text = "" -> <<>>
      [] text = "huey" -> <<"huey">>
      [] text = "huey the huey message" -> <<"huey", "the", "huey", "message">>
      [] text = "message" -> <<"message">>
      [] text = "message huey" -> <<"message", "huey">>
      [] text = "the" -> <<"the">>
      [] text = "and" -> <<"and">>

StopWords == {"the"}

FilterStopWords(words) == SelectSeq(words, LAMBDA w : w \notin StopWords)

RECURSIVE Distinct(_)
Distinct(words) ==
    IF words = <<>> THEN <<>>
    ELSE <<Head(words)>> \o
         Distinct(SelectSeq(Tail(words), LAMBDA w : w # Head(words)))

Count(words, w) == Len(SelectSeq(words, LAMBDA x : x = w))

TokenWords(value) == FilterStopWords(SplitPhrase(Lower(value)))

\* The words of the dict tokenize returns, in order of first occurrence.
TokenSeq(value) == Distinct(TokenWords(value))

\* A score n * (1 / (len(words) + 1)) is kept as the fraction <<n, len + 1>>.
Tokenize(value) ==
    [w \in {TokenWords(value)[i] : i \in 1..Len(TokenWords(value))} |->
        <<Count(TokenWords(value), w), Len(TokenWords(value)) + 1>>]

---------------------------------------------------------------------------
(* Instances and index maintenance. *)

\* An instance is its _data dict: a function from the names that are set.
\* save() takes an empty key for a missing one: not self._data.get(pk).
PkUnset(inst) == PkField \notin DOMAIN inst \/ inst[PkField] = 0

\* get_id() answers None for an unset key, and get_hash_id() then fails in
\* int(None): HasHashId tells whether get_hash_id() answers.
HasHashId(inst) == PkField \in DOMAIN inst

GetHashId(inst) == GetPrimaryHashKey(inst[PkField])

\* BaseIndex.field_value.
FieldValue(f, inst) == DbValue(f, inst[f])

\* A data dict that leaves the primary key out of the hash.
GetDataDictNoKey(inst) ==
    [f \in DOMAIN inst \ {PkField} |-> Encode(f, DbValue(f, inst[f]))]

\* Model._get_data_dict followed by the client's encoding of the values.
GetDataDict(inst) == [f \in DOMAIN inst |-> Encode(f, DbValue(f, inst[f]))]

\* Model.load: the instance built from the raw hash.
Decode(raw) == [f \in DOMAIN raw |-> PythonValue(f, raw[f])]

Cmd2(c, k) == [c |-> c, k |-> k]

Cmd3(c, k, m) == [c |-> c, k |-> k, m |-> m]

Cmd4(c, k, m, s) == [c |-> c, k |-> k, m |-> m, s |-> s]

\* AbsoluteIndex.store_instance / delete_instance.
AbsoluteStore(f, inst) ==
    <<Cmd3("SADD", AbsKey(f, FieldValue(f, inst)), GetHashId(inst))>>

AbsoluteDelete(f, inst) ==
    <<Cmd3("SREM", AbsKey(f, FieldValue(f, inst)), GetHashId(inst)),
      Cmd2("SCARD", AbsKey(f, FieldValue(f, inst))),
      Cmd2("DEL", AbsKey(f, FieldValue(f, inst)))>>

\* ContinuousIndex.store_instance / delete_instance.
ContinuousStore(f, inst) ==
    <<Cmd4("ZADD", ContKey(f), GetHashId(inst), FieldValue(f, inst))>>

ContinuousDelete(f, inst) ==
    <<Cmd3("ZREM", ContKey(f), GetHashId(inst)),
      Cmd2("ZCARD", ContKey(f)),
      Cmd2("DEL", ContKey(f))>>

\* FullTextIndex.store_instance / delete_instance: one round per token.
RECURSIVE FtsStoreWords(_, _, _)
FtsStoreWords(f, inst, words) ==
    IF words = <<>> THEN <<>>
    ELSE <<Cmd4("ZADD", FtsKey(f, Head(words)), GetHashId(inst),
                Tokenize(FieldValue(f, inst))[Head(words)])>>
         \o FtsStoreWords(f, inst, Tail(words))

FullTextStore(f, inst) == FtsStoreWords(f, inst, TokenSeq(FieldValue(f, inst)))

RECURSIVE FtsDeleteWords(_, _, _)
FtsDeleteWords(f, inst, words) ==
    IF words = <<>> THEN <<>>
    ELSE <<Cmd3("ZREM", FtsKey(f, Head(words)), GetHashId(inst)),
           Cmd2("ZCARD", FtsKey(f, Head(words))),
           Cmd2("DEL", FtsKey(f, Head(words)))>>
         \o FtsDeleteWords(f, inst, Tail(words))

FullTextDelete(f, inst) == FtsDeleteWords(f, inst, TokenSeq(FieldValue(f, inst)))

\* BaseIndex.save and BaseIndex.remove of one index of a field.
IndexSave(kind, f, inst) ==
    CASE kind = "absolute" -> AbsoluteStore(f, inst)
      [] kind = "continuous" -> ContinuousStore(f, inst)
      [] kind = "fts" -> FullTextStore(f, inst)

IndexRemove(kind, f, inst) ==
    CASE kind = "absolute" -> AbsoluteDelete(f, inst)
      [] kind = "continuous" -> ContinuousDelete(f, inst)
      [] kind = "fts" -> FullTextDelete(f, inst)

RECURSIVE FieldSaveKinds(_, _, _)
FieldSaveKinds(kinds, f, inst) ==
    IF kinds = <<>> THEN <<>>
    ELSE IndexSave(Head(kinds), f, inst) \o FieldSaveKinds(Tail(kinds), f, inst)

RECURSIVE FieldRemoveKinds(_, _, _)
FieldRemoveKinds(kinds, f, inst) ==
    IF kinds = <<>> THEN <<>>
    ELSE IndexRemove(Head(kinds), f, inst)
         \o FieldRemoveKinds(Tail(kinds), f, inst)

\* for index in field.get_indexes(): index.save(self) / index.remove(self).
FieldSave(f, inst) == FieldSaveKinds(GetIndexes(f), f, inst)

FieldRemove(f, inst) == FieldRemoveKinds(GetIndexes(f), f, inst)

RECURSIVE SaveFields(_, _)
SaveFields(fields, inst) ==
    IF fields = <<>> THEN <<>>
    ELSE FieldSave(Head(fields), inst) \o SaveFields(Tail(fields), inst)

RECURSIVE RemoveFields(_, _)
RemoveFields(fields, inst) ==
    IF fields = <<>> THEN <<>>
    ELSE FieldRemove(Head(fields), inst) \o RemoveFields(Tail(fields), inst)

---------------------------------------------------------------------------
(* Expressions and the Executor (walrus/query.py).                         *)
(*                                                                         *)
(* A comparison is [op, f, n, m, t]: field f against the integer n (and m  *)
(* for between) or the text t.  A connective is [op, lhs, rhs].  The       *)
(* result of a node is a reference [k, t]: the key of a container and its  *)
(* class, "set" (Set) or "zset" (ZSet).                                    *)

Cmp(op, f, n, m, t) == [op |-> op, f |-> f, n |-> n, m |-> m, t |-> t]

Eq(f, v) == IF IsScalar(f) THEN Cmp("==", f, v, 0, "") ELSE Cmp("==", f, 0, 0, v)

Ne(f, v) == IF IsScalar(f) THEN Cmp("!=", f, v, 0, "") ELSE Cmp("!=", f, 0, 0, v)

Between(f, lo, hi) == Cmp("between", f, lo, hi, "")

Match(f, text) == Cmp("match", f, 0, 0, text)

And(a, b) == [op |-> "and", lhs |-> a, rhs |-> b]

Or(a, b) == [op |-> "or", lhs |-> a, rhs |-> b]

IsConnective(e) == e.op \in {"and", "or"}

\* The literal of a comparison after lhs.db_value(rhs).
Literal(e) == DbValue(e.f, IF IsScalar(e.f) THEN e.n ELSE e.t)

\* Temporary results kept under the name of an Absolute set.
GetTempKeyIndex(path) == AbsKey("content", "message")

\* A name for temporary results that an index of the model may take.
GetTempKeyDurable(path) == AbsKey("status", 3)

\* Database.get_temp_key: 'temp.%s' % uuid.uuid4().  The random part is
\* modelled by the path of the node in the expression: one name per node.
GetTempKey(path) == "temp." \o path

Ref(k, t) == [k |-> k, t |-> t]

\* Fractions <<n, d>> in lowest terms, the scores of the full-text index.
RECURSIVE Gcd(_, _)
Gcd(a, b) == IF b = 0 THEN a ELSE Gcd(b, a % b)

Reduce(x) == <<x[1] \div Gcd(x[1], x[2]), x[2] \div Gcd(x[1], x[2])>>

FracAdd(x, y) == Reduce(<<x[1] * y[2] + y[1] * x[2], x[2] * y[2]>>)

\* The members of a source of ZINTERSTORE / ZUNIONSTORE, and the score of
\* one: the members of a plain set count with score 1.
SourceMembers(d, src) ==
    IF ~Exists(d, src.k) THEN {}
    ELSE IF src.t = "zset" THEN DOMAIN d[src.k] ELSE d[src.k]

SourceScore(d, src, m) ==
    IF src.t = "zset" THEN Reduce(d[src.k][m]) ELSE <<1, 1>>

\* AGGREGATE SUM with weight 1, the defaults, over the sources holding m.
RECURSIVE SumScores(_, _, _)
SumScores(d, srcs, m) ==
    IF srcs = <<>> THEN <<0, 1>>
    ELSE IF m \in SourceMembers(d, Head(srcs))
         THEN FracAdd(SourceScore(d, Head(srcs), m), SumScores(d, Tail(srcs), m))
         ELSE SumScores(d, Tail(srcs), m)

\* A store command's destination: an empty result leaves no key.
StoreAt(d, k, v, members) == IF members = {} THEN Del(d, k) ELSE Put(d, k, v)

SDiffStore(d, k, keys) ==
    LET r == SMembers(d, keys[1]) \ SMembers(d, keys[2])
    IN  StoreAt(d, k, r, r)

SInterStore(d, k, keys) ==
    LET r == SMembers(d, keys[1]) \cap SMembers(d, keys[2])
    IN  StoreAt(d, k, r, r)

SUnionStore(d, k, keys) ==
    LET r == SMembers(d, keys[1]) \cup SMembers(d, keys[2])
    IN  StoreAt(d, k, r, r)

ZInterStore(d, k, srcs) ==
    LET r == {m \in SourceMembers(d, srcs[1]) :
                 \A i \in 1..Len(srcs) : m \in SourceMembers(d, srcs[i])}
    IN  StoreAt(d, k, [m \in r |-> SumScores(d, srcs, m)], r)

ZUnionStore(d, k, srcs) ==
    LET r == UNION {SourceMembers(d, srcs[i]) : i \in 1..Len(srcs)}
    IN  StoreAt(d, k, [m \in r |-> SumScores(d, srcs, m)], r)

\* A score range: low and high, each unbounded (float('-inf'),
\* float('inf')), inclusive, or exclusive ('(%s' % db_value).
Range(lo, loKind, hi, hiKind) ==
    [lo |-> lo, loKind |-> loKind, hi |-> hi, hiKind |-> hiKind]

InRange(x, r) ==
    /\ CASE r.loKind = "inf" -> TRUE
         [] r.loKind = "incl" -> r.lo <= x
         [] r.loKind = "excl" -> r.lo < x
    /\ CASE r.hiKind = "inf" -> TRUE
         [] r.hiKind = "incl" -> x <= r.hi
         [] r.hiKind = "excl" -> x < r.hi

\* The script zset_score_filter: the members of the sorted set whose score
\* is in the range, stored as a plain set under the destination key.
ZsetScoreFilter(d, k, zkey, r) ==
    LET res == {m \in DOMAIN ZScores(d, zkey) : InRange(ZScores(d, zkey)[m], r)}
    IN  StoreAt(d, k, res, res)

\* The ranges with both ends inclusive whatever the comparison.
ScoreRangeInclusive(e) ==
    CASE e.op \in {"<", "<="} -> Range(0, "inf", Literal(e), "incl")
      [] e.op \in {">", ">="} -> Range(Literal(e), "incl", 0, "inf")
      [] e.op = "between" -> Range(e.n, "incl", e.m, "incl")

\* The score range of a comparison: execute_lt, execute_lte, execute_gt,
\* execute_gte and execute_between.
ScoreRange(e) ==
    CASE e.op = "<" -> Range(0, "inf", Literal(e), "excl")
      [] e.op = "<=" -> Range(0, "inf", Literal(e), "incl")
      [] e.op = ">" -> Range(Literal(e), "excl", 0, "inf")
      [] e.op = ">=" -> Range(Literal(e), "incl", 0, "inf")
      [] e.op = "between" -> Range(e.n, "incl", e.m, "incl")

\* execute_match: the keys of the sorted sets of the words of the text.
MatchKeys(e) ==
    [i \in 1..Len(TokenSeq(Literal(e))) |->
        Ref(FtsKey(e.f, TokenSeq(Literal(e))[i]), "zset")]

\* Executor._combine_sets: the store command on the two sub-results.  The
\* source is the left one unless only the right one is a ZSet.
CombineSource(l, r) == IF l.t # r.t /\ r.t = "zset" THEN r ELSE l

CombineDest(l, r) == IF l.t # r.t /\ r.t = "zset" THEN l ELSE r

\* The combination that intersects whatever the connective.
CombineIntersect(op, l, r, tmp) ==
    LET source == CombineSource(l, r)
        dest == CombineDest(l, r)
    IN  IF source.t = "set" THEN Cmd3("SINTERSTORE", tmp, <<source.k, dest.k>>)
        ELSE Cmd3("ZINTERSTORE", tmp, <<source, dest>>)

Combine(op, l, r, tmp) ==
    LET source == CombineSource(l, r)
        dest == CombineDest(l, r)
    IN  IF source.t = "set"
        THEN Cmd3(IF op = "and" THEN "SINTERSTORE" ELSE "SUNIONSTORE", tmp,
                  <<source.k, dest.k>>)
        ELSE Cmd3(IF op = "and" THEN "ZINTERSTORE" ELSE "ZUNIONSTORE", tmp,
                  <<source, dest>>)

\* Executor.execute: the store commands of an expression, in the order
\* they are issued, and the reference it returns.
RECURSIVE Compile(_, _)
Compile(e, path) ==
    LET tmp == GetTempKey(path)
        expire == <<Cmd2("EXPIRE", tmp)>>
    IN  CASE e.op = "==" ->
               [cmds |-> <<>>, ref |-> Ref(AbsKey(e.f, Literal(e)), "set")]
          [] e.op = "!=" ->
               [cmds |-> <<Cmd3("SDIFFSTORE", tmp,
                                <<AllKey, AbsKey(e.f, Literal(e))>>)>> \o expire,
                ref |-> Ref(tmp, "set")]
          [] e.op \in {"<", "<=", ">", ">=", "between"} ->
               [cmds |-> <<Cmd4("ZFILTER", tmp, ContKey(e.f), ScoreRange(e))>>
                           \o expire,
                ref |-> Ref(tmp, "set")]
          [] e.op = "match" ->
               [cmds |-> (IF MatchKeys(e) = <<>> THEN <<>>
                          ELSE <<Cmd3("ZINTERSTORE", tmp, MatchKeys(e))>>)
                           \o expire,
                ref |-> Ref(tmp, "zset")]
          [] IsConnective(e) ->
               LET l == Compile(e.lhs, path \o "l")
                   r == Compile(e.rhs, path \o "r")
               IN  [cmds |-> l.cmds \o r.cmds
                               \o <<Combine(e.op, l.ref, r.ref, tmp)>> \o expire,
                    ref |-> Ref(tmp, CombineSource(l.ref, r.ref).t)]

\* What iterating a result container reads: the members, and with a ZSet
\* their scores.  A missing key reads as the empty container.
ResultOf(d, ref) ==
    [t |-> ref.t, members |-> SourceMembers(d, ref),
     scores |-> IF ref.t = "zset"
                THEN [m \in SourceMembers(d, ref) |-> Reduce(d[ref.k][m])]
                ELSE <<>>]

FracLeq(x, y) == x[1] * y[2] <= y[1] * x[2]

\* Set._first_or_any (SRANDMEMBER) and ZSet._first_or_any (self[0], the
\* lowest score): <<>> is None, the answer on an empty or missing key.
\* Model.get calls it on a result of one member.
FirstOrAny(d, ref) ==
    LET ms == SourceMembers(d, ref)
    IN  IF ms = {} THEN <<>>
        ELSE IF ref.t = "set" THEN <<CHOOSE m \in ms : TRUE>>
        ELSE <<CHOOSE m \in ms :
                  \A o \in ms : FracLeq(SourceScore(d, ref, m),
                                        SourceScore(d, ref, o))>>

\* Whether the command writes its key anew, which drops a TTL on it.
StoreCommands ==
    {"SDIFFSTORE", "SINTERSTORE", "SUNIONSTORE", "ZINTERSTORE", "ZUNIONSTORE",
     "ZFILTER", "DEL"}

Without(t, k) == SelectSeq(t, LAMBDA x : x # k)

\* The keys with a TTL after command c on keyspace d, in the order of
\* their deadlines: Container.expire is EXPIRE, which answers 0 and sets
\* nothing on a missing key.  The Executor gives every key the same time
\* to live, so the key of the latest EXPIRE has the latest deadline.
TtlAfter(d, t, c) ==
    CASE c.c = "EXPIRE" ->
           IF Exists(d, c.k) THEN Append(Without(t, c.k), c.k) ELSE t
      [] c.c \in StoreCommands -> Without(t, c.k)
      [] OTHER -> t

---------------------------------------------------------------------------
(* The handlers as programs over store commands.                           *)
(*                                                                         *)
(* A caller's state l: op the handler, plan the phases still to run, todo  *)
(* the store commands of the current phase, self the instance's _data,     *)
(* orig the original_instance delete() loads, field and by the arguments   *)
(* of incr(), n the last value read, ret the value returned, status one    *)
(* of "run", "done" (returned) and "raised".                               *)

\* A key generator that reads the sequence key and then writes it back.
GenerateKeyReadThenWrite == <<Cmd2("GET", SeqKey)>>

\* AutoIncrementField._generate_key: one INCR of the sequence key.
GenerateKey == <<Cmd2("INCR", SeqKey)>>

\* A delete that leaves the key in the all index.
DeletePlanKeepAll == <<"d_exists", "d_load", "d_index", "d_hash">>

\* Model.delete, top to bottom.
DeletePlan == <<"d_exists", "d_load", "d_all", "d_index", "d_hash">>

\* A save that leaves the all index alone.
WritePlanNoAll == <<"s_clear", "s_hmset", "s_index">>

\* Model.save after the primary key is settled: the body that writes.
WritePlan == <<"s_clear", "s_hmset", "s_all", "s_index">>

\* A save that writes before it retracts.
SavePlanWriteFirst(requireDelete) ==
    IF requireDelete THEN WritePlan \o DeletePlan ELSE WritePlan

\* Model.save: self.delete(for_update=True) comes first when the instance
\* had a primary key.
SavePlan(requireDelete) ==
    IF requireDelete THEN DeletePlan \o WritePlan ELSE WritePlan

\* Model.incr, top to bottom.
IncrPlan == <<"i_remove", "i_incr", "i_save">>

\* An increment that reads the field and then writes it back.
IncrFieldReadThenWrite(l) ==
    <<Cmd3("HGET", GetHashId(l.self), l.field) @@ [s |-> l.by]>>

\* Model.incr: model_hash.incr(field.name, incr_by), one HINCRBY.
IncrField(l) == <<Cmd4("HINCRBY", GetHashId(l.self), l.field, l.by)>>

\* A removal that retracts with the values of the instance in memory.
RemoveSourceSelf(l) == l.self

\* The instance Model.delete hands to index.remove: original_instance.
RemoveSource(l) == l.orig

\* A removal in incr with the value the increment will give.
IncrRemoveSourceNew(l) == [l.self EXCEPT ![l.field] = @ + l.by]

\* The instance Model.incr hands to index.remove: self.
IncrRemoveSource(l) == l.self

IsDeletePhase(ph) == ph \in {DeletePlan[i] : i \in 1..Len(DeletePlan)}

\* return from delete(): the rest of its phases is not run.
RECURSIVE DropDelete(_)
DropDelete(plan) ==
    IF plan # <<>> /\ IsDeletePhase(Head(plan)) THEN DropDelete(Tail(plan))
    ELSE plan

NewCaller(op, inst, plan, f, by) ==
    [op |-> op, plan |-> plan, todo |-> <<>>, self |-> inst, orig |-> <<>>,
     field |-> f, by |-> by, n |-> 0, ret |-> 0, status |-> "run",
     ref |-> <<>>]

Idle == [NewCaller("idle", <<>>, <<>>, PkField, 0) EXCEPT !.status = "done"]

\* The fields of a sequence that come before the first one the instance
\* has no value for.
RECURSIVE SetPrefix(_, _)
SetPrefix(fields, inst) ==
    IF fields = <<>> \/ Head(fields) \notin DOMAIN inst THEN <<>>
    ELSE <<Head(fields)>> \o SetPrefix(Tail(fields), inst)

\* The first phase of the plan, turned into its store commands.
Expand(l) ==
    LET ph == Head(l.plan)
        rest == Tail(l.plan)
        raise == [l EXCEPT !.status = "raised", !.plan = <<>>]
        go(cmds) == [l EXCEPT !.plan = rest, !.todo = cmds]
    IN  CASE ph = "s_key" ->
               IF PkUnset(l.self)
               THEN [l EXCEPT !.plan = SavePlan(FALSE) \o rest,
                              !.todo = GenerateKey]
               ELSE [l EXCEPT !.plan = SavePlan(TRUE) \o rest]
          [] ph = "d_exists" ->
               IF HasHashId(l.self)
               THEN go(<<Cmd2("EXISTS", GetHashId(l.self))>>)
               ELSE raise
          [] ph = "d_load" -> go(<<Cmd2("HGETALL", GetHashId(l.self))>>)
          [] ph = "d_all" -> go(<<Cmd3("SREM", AllKey, GetHashId(l.self))>>)
          [] ph = "d_index" ->
               \* index.remove(original_instance) raises at the first
               \* field that load() left None
               IF FieldSet \subseteq DOMAIN RemoveSource(l)
               THEN go(RemoveFields(Indexes, RemoveSource(l)))
               ELSE [l EXCEPT
                       !.plan = <<"raise">>,
                       !.todo = RemoveFields(SetPrefix(Indexes, RemoveSource(l)),
                                             RemoveSource(l))]
          [] ph = "d_hash" -> go(<<Cmd2("DEL", GetHashId(l.self))>>)
          [] ph = "s_clear" -> go(<<Cmd2("DEL", GetHashId(l.self))>>)
          [] ph = "s_hmset" ->
               go(<<Cmd3("HMSET", GetHashId(l.self), GetDataDict(l.self))>>)
          [] ph = "s_all" -> go(<<Cmd3("SADD", AllKey, GetHashId(l.self))>>)
          [] ph = "s_index" ->
               \* index.save(self) raises KeyError at the first field that
               \* has no value in self._data
               IF Len(SetPrefix(Indexes, l.self)) = Len(Indexes)
               THEN go(SaveFields(Indexes, l.self))
               ELSE [l EXCEPT
                       !.plan = <<"raise">>,
                       !.todo = SaveFields(SetPrefix(Indexes, l.self), l.self)]
          [] ph = "raise" -> raise
          [] ph = "i_remove" -> go(FieldRemove(l.field, IncrRemoveSource(l)))
          [] ph = "i_incr" -> go(IncrField(l))
          [] ph = "i_save" -> go(FieldSave(l.field, l.self))
          [] ph = "q_exec" ->
               \* executor.execute(expression)
               [l EXCEPT !.plan = rest, !.todo = Compile(l.self, "r").cmds,
                         !.ref = Compile(l.self, "r").ref]
          [] ph = "q_read" -> go(<<Cmd3("MEMBERS", l.ref.k, l.ref.t)>>)
          [] ph = "q_load" -> go(<<Cmd3("LOADALL", AllKey, l.ret.members)>>)
          [] ph = "g_len" -> go(<<Cmd3("LEN", l.ref.k, l.ref.t)>>)
          [] ph = "g_first" -> go(<<Cmd3("FIRST", l.ref.k, l.ref.t)>>)
          [] ph = "g_load" ->
               \* cls.load(result._first_or_any(), convert_key=False)
               IF l.ret = <<>> THEN [l EXCEPT !.status = "KeyError", !.plan = <<>>]
               ELSE go(<<Cmd2("LOAD_EXISTS", l.ret[1]), Cmd2("HGETALL", l.ret[1])>>)
          [] ph = "l_load" ->
               go(<<Cmd2("LOAD_EXISTS", GetPrimaryHashKey(l.self[PkField])),
                    Cmd2("HGETALL", GetPrimaryHashKey(l.self[PkField]))>>)

\* Local computation up to the next store command, the return or the raise.
RECURSIVE Normalize(_)
Normalize(l) ==
    IF l.status # "run" \/ l.todo # <<>> THEN l
    ELSE IF l.plan = <<>> THEN [l EXCEPT !.status = "done"]
    ELSE Normalize(Expand(l))

\* The keyspace after the store command c.
Apply(d, c) ==
    CASE c.c = "SADD" -> SAdd(d, c.k, c.m)
      [] c.c = "SREM" -> SRem(d, c.k, c.m)
      [] c.c = "ZADD" -> ZAdd(d, c.k, c.m, c.s)
      [] c.c = "ZREM" -> ZRem(d, c.k, c.m)
      [] c.c = "DEL" -> Del(d, c.k)
      [] c.c = "HMSET" -> HMSet(d, c.k, c.m)
      [] c.c = "INCR" -> Incr(d, c.k)
      [] c.c = "HINCRBY" -> HIncrBy(d, c.k, c.m, c.s)
      [] c.c = "SET" -> Put(d, c.k, Str(c.m))
      [] c.c = "SDIFFSTORE" -> SDiffStore(d, c.k, c.m)
      [] c.c = "SINTERSTORE" -> SInterStore(d, c.k, c.m)
      [] c.c = "SUNIONSTORE" -> SUnionStore(d, c.k, c.m)
      [] c.c = "ZINTERSTORE" -> ZInterStore(d, c.k, c.m)
      [] c.c = "ZUNIONSTORE" -> ZUnionStore(d, c.k, c.m)
      [] c.c = "ZFILTER" -> ZsetScoreFilter(d, c.k, c.m, c.s)
      [] OTHER -> d

\* The caller's state after the store command c answered on keyspace d.
Answer(d, l, c) ==
    LET rest == Tail(l.todo)
        next == [l EXCEPT !.todo = rest]
        fail(kind) == [l EXCEPT !.status = kind, !.plan = <<>>, !.todo = <<>>]
    IN  CASE c.c \in {"SCARD", "ZCARD"} ->
               \* if len(key) == 0: key.clear()
               LET card == IF c.c = "SCARD" THEN SCard(d, c.k) ELSE ZCard(d, c.k)
               IN  [l EXCEPT !.n = card,
                             !.todo = IF card = 0 THEN rest ELSE Tail(rest)]
          [] c.c = "EXISTS" ->
               \* except KeyError: return
               IF Exists(d, c.k) THEN next
               ELSE [next EXCEPT !.plan = DropDelete(l.plan)]
          [] c.c = "HGETALL" ->
               \* Model.load: cls(**data)
               [next EXCEPT !.orig = Decode(HGetAll(d, c.k))]
          [] c.c = "INCR" ->
               [next EXCEPT !.self = (PkField :> IncrValue(d, c.k)) @@ l.self]
          [] c.c = "HINCRBY" ->
               [next EXCEPT
                  !.self = (c.m :> HIncrByValue(d, c.k, c.m, c.s)) @@ l.self,
                  !.ret = HIncrByValue(d, c.k, c.m, c.s)]
          [] c.c = "GET" ->
               LET cur == IF Exists(d, c.k) THEN ParseInt(d[c.k]) ELSE 0
               IN  [next EXCEPT !.n = cur,
                                !.todo = <<Cmd3("SET", c.k, cur + 1)>>,
                                !.self = (PkField :> (cur + 1)) @@ l.self]
          [] c.c = "HGET" ->
               LET cur == IF c.m \in DOMAIN HGetAll(d, c.k)
                          THEN ParseInt(HGetAll(d, c.k)[c.m]) ELSE 0
               IN  [next EXCEPT !.n = cur,
                                !.todo = <<Cmd4("HSET", c.k, c.m, cur + c.s)>>,
                                !.self = (c.m :> (cur + c.s)) @@ l.self,
                                !.ret = cur + c.s]
          [] c.c = "MEMBERS" ->
               \* for hash_id in result
               [next EXCEPT !.ret = ResultOf(d, Ref(c.k, c.m))]
          [] c.c = "LOADALL" ->
               \* yield cls.load(hash_id, convert_key=False)
               IF c.m \subseteq DOMAIN d THEN next ELSE fail("KeyError")
          [] c.c = "LEN" ->
               \* if len(result) != 1: raise ValueError
               IF Cardinality(SourceMembers(d, Ref(c.k, c.m))) = 1
               THEN [next EXCEPT !.n = 1]
               ELSE [fail("ValueError") EXCEPT
                       !.n = Cardinality(SourceMembers(d, Ref(c.k, c.m)))]
          [] c.c = "FIRST" ->
               [next EXCEPT !.ret = FirstOrAny(d, Ref(c.k, c.m))]
          [] c.c = "LOAD_EXISTS" ->
               \* if not cls.database.hash_exists(key): raise KeyError
               IF Exists(d, c.k) THEN next ELSE fail("KeyError")
          [] OTHER -> next

CanStep(l) == l.status = "run" /\ l.todo # <<>>

\* One store command of caller l on keyspace d.
Step(d, l) ==
    [db |-> Apply(d, Head(l.todo)),
     l |-> Normalize(Answer(d, l, Head(l.todo)))]

\* The handler run to its end, with the commands it issued.
RECURSIVE RunFrom(_, _, _)
RunFrom(d, l, log) ==
    IF ~CanStep(l) THEN [db |-> d, l |-> l, log |-> log]
    ELSE LET r == Step(d, l)
         IN  RunFrom(r.db, r.l, Append(log, Cmd2(Head(l.todo).c, Head(l.todo).k)))

Run(d, l) == RunFrom(d, Normalize(l), <<>>)

\* instance.save(), instance.delete(), instance.incr(field, by).
SaveCall(inst) == NewCaller("save", inst, <<"s_key">>, PkField, 0)

DeleteCall(inst) == NewCaller("delete", inst, DeletePlan, PkField, 0)

IncrCall(inst, f, by) == NewCaller("incr", inst, IncrPlan, f, by)

\* Model.query(expression), Model.get(expression), Model.load(primary_key).
QueryPlan == <<"q_exec", "q_read", "q_load">>

GetPlan == <<"q_exec", "g_len", "g_first", "g_load">>

QueryCall(e) == NewCaller("query", e, QueryPlan, PkField, 0)

GetCall(e) == NewCaller("get", e, GetPlan, PkField, 0)

LoadCall(pk) == NewCaller("load", PkField :> pk, <<"l_load">>, PkField, 0)

\* The keys with a TTL after the handler has run to its end.
RECURSIVE TtlFrom(_, _, _)
TtlFrom(d, t, l) ==
    IF ~CanStep(l) THEN t
    ELSE TtlFrom(Step(d, l).db, TtlAfter(d, t, Head(l.todo)), Step(d, l).l)

RunTtl(d, t, l) == TtlFrom(d, t, Normalize(l))

---------------------------------------------------------------------------
(* Sequential specification: completed, non-overlapping calls.             *)

Callers == 1..NumCallers

StatusValues == {1, 2}

\* Instances without a primary key, as Message(content=..., status=...).
NewInsts ==
    {("status" :> s) @@ ("content" :> t) : s \in StatusValues, t \in Texts}

\* Instances with a primary key: loaded ones, possibly changed in memory
\* since, and ones built with an explicit key.
KeyedInsts == {(PkField :> k) @@ i : k \in 1..MaxId, i \in NewInsts}

\* The outcome of a completed call: the instance after it, the store
\* commands it issued, the value it returned and how it ended.
Outcome(op, r) ==
    [op |-> op, self |-> r.l.self, log |-> r.log, ret |-> r.l.ret,
     status |-> r.l.status]

NoCall == [op |-> "none", self |-> <<>>, log |-> <<>>, ret |-> 0,
           status |-> "done"]

Init ==
    /\ db = EmptyDb
    /\ last = NoCall
    /\ procs = [p \in Callers |-> Idle]
    /\ ttl = <<>>

\* Message.create(**kwargs): cls(**kwargs).save().
Create(inst) ==
    /\ last = NoCall
    /\ IncrValue(db, SeqKey) <= MaxId
    /\ LET r == Run(db, SaveCall(inst))
       IN  db' = r.db /\ last' = Outcome("create", r)
    /\ UNCHANGED <<procs, ttl>>

\* instance.save() of an instance with a primary key.
Save(inst) ==
    /\ last = NoCall
    /\ LET r == Run(db, SaveCall(inst))
       IN  db' = r.db /\ last' = Outcome("save", r)
    /\ UNCHANGED <<procs, ttl>>

\* instance.delete().
Delete(inst) ==
    /\ last = NoCall
    /\ LET r == Run(db, DeleteCall(inst))
       IN  db' = r.db /\ last' = Outcome("delete", r)
    /\ UNCHANGED <<procs, ttl>>

\* The caller has seen the outcome of its call and goes on: calls do not
\* overlap.
Resume ==
    /\ last # NoCall
    /\ last' = NoCall
    /\ UNCHANGED <<db, procs, ttl>>

\* The keys the sequence has handed out so far.
HandedOut(d) == 1..(IncrValue(d, SeqKey) - 1)

\* instance.save() of an instance that create() or load() returned,
\* possibly changed in memory since.
Update(inst) ==
    /\ inst[PkField] \in HandedOut(db)
    /\ Save(inst)

Next ==
    \/ Resume
    \/ \E inst \in NewInsts : Create(inst)
    \/ \E inst \in KeyedInsts : Update(inst)
    \/ \E inst \in KeyedInsts \cup NewInsts : Delete(inst)

\* Calls on records whose keys all come from the sequence.
Spec == Init /\ [][Next]_vars

NextExplicit ==
    \/ Resume
    \/ \E inst \in NewInsts : Create(inst)
    \/ \E inst \in KeyedInsts : Save(inst)
    \/ \E inst \in KeyedInsts \cup NewInsts : Delete(inst)

\* The same calls, and save() of instances built with an explicit key,
\* as Message(_id=1, ...).save().
SpecExplicit == Init /\ [][NextExplicit]_vars

---------------------------------------------------------------------------
(* Reading the keyspace. *)

\* The values a field takes in the keyspaces of the model.
Values(f) == IF IsScalar(f) THEN 0..MaxInt ELSE Texts

\* Every word the tokenizer yields in the model.
Words == UNION {DOMAIN Tokenize(t) : t \in Texts}

HashKeys == {GetPrimaryHashKey(k) : k \in 0..MaxInt}

IsSortedSetKey(k) ==
    \/ \E f \in FieldSet : k = ContKey(f)
    \/ \E f \in FieldSet, w \in Words : k = FtsKey(f, w)

\* The members of the set or sorted set under key k.
Members(d, k) ==
    IF ~Exists(d, k) THEN {}
    ELSE IF IsSortedSetKey(k) THEN DOMAIN d[k] ELSE d[k]

\* The index containers that exist: the all set and the secondary indexes.
IndexContainers(d) == (DOMAIN d) \ (HashKeys \cup {SeqKey})

\* The persisted records: the primary hashes that exist.
Persisted(d) == (DOMAIN d) \cap HashKeys

\* Model.load(primary_key): the _data of the instance, given that the
\* primary hash exists (it raises KeyError otherwise).
LoadFound(d, hk) == Exists(d, hk)

\* The fields the hash lacks are None in the instance: they are left out
\* of the function.
Load(d, hk) == Decode(HGetAll(d, hk))

\* Executor.execute_eq: the Absolute set of the value, which query() and
\* get() iterate to load the records.
ExecuteEq(d, f, v) == SMembers(d, AbsKey(f, DbValue(f, v)))

\* A value after db_value, the store and python_value.
RoundTrip(f, v) == PythonValue(f, Encode(f, DbValue(f, v)))

IndexedFields == {Indexes[i] : i \in 1..Len(Indexes)}

\* The index containers the values of an instance imply.
ImpliedKeys(inst) ==
    {AbsKey(f, inst[f]) : f \in IndexedFields}
      \cup {ContKey(f) : f \in {g \in IndexedFields : IsScalar(g)}}
      \cup UNION {{FtsKey(f, w) : w \in DOMAIN Tokenize(inst[f])} :
                    f \in {g \in IndexedFields : HasFts(g)}}

Commands(log) == {log[i].c : i \in 1..Len(log)}

---------------------------------------------------------------------------
(* Concurrent incr(): every caller loads the record and calls              *)
(* incr(Message.status), their store commands interleave.                  *)

\* The record the callers increment: Message.create(status=1,
\* content="huey") on an empty store.
Counted == ("status" :> 1) @@ ("content" :> "huey")

CountedDb == Run(EmptyDb, SaveCall(Counted)).db

CountedKey == GetPrimaryHashKey(1)

InitIncr ==
    /\ db = CountedDb
    /\ last = NoCall
    /\ procs = [p \in Callers |-> Idle]
    /\ ttl = <<>>

\* Caller p loads the record and calls incr(Message.status) on it.
IncrStart(p) ==
    /\ procs[p].op = "idle"
    /\ procs' = [procs EXCEPT
                   ![p] = Normalize(IncrCall(Load(db, CountedKey), "status", 1))]
    /\ UNCHANGED <<db, last, ttl>>

\* The next store command of caller p.
CallerStep(p) ==
    /\ CanStep(procs[p])
    /\ db' = Step(db, procs[p]).db
    /\ procs' = [procs EXCEPT ![p] = Step(db, procs[p]).l]
    /\ UNCHANGED <<last, ttl>>

NextIncr == \E p \in Callers : IncrStart(p) \/ CallerStep(p)

SpecIncr == InitIncr /\ [][NextIncr]_vars

\* Every caller has made its call and the call has returned.
AllReturned == \A p \in Callers : procs[p].op # "idle" /\ procs[p].status = "done"

---------------------------------------------------------------------------
(* Concurrent create(): every caller calls Message.create(...) once.       *)

TextOf == <<"", "huey", "Huey the huey message">>

\* The instance of caller p: the callers' values differ.
CallerInst(p) ==
    ("status" :> p) @@ ("content" :> TextOf[((p - 1) % Len(TextOf)) + 1])

InitCreate ==
    /\ db = EmptyDb
    /\ last = NoCall
    /\ procs = [p \in Callers |-> Idle]
    /\ ttl = <<>>

\* Caller p calls Message.create(**CallerInst(p)).
CreateStart(p) ==
    /\ procs[p].op = "idle"
    /\ procs' = [procs EXCEPT ![p] = Normalize(SaveCall(CallerInst(p)))]
    /\ UNCHANGED <<db, last, ttl>>

NextCreate == \E p \in Callers : CreateStart(p) \/ CallerStep(p)

SpecCreate == InitCreate /\ [][NextCreate]_vars

---------------------------------------------------------------------------
(* Claims. *)

\* The index entries of the persisted record under hash key hk are exactly
\* those its stored values imply.
RecordIndexed(d, hk) ==
    \A f \in {Indexes[i] : i \in 1..Len(Indexes)} :
        LET v == Load(d, hk)[f]
        IN  /\ \A x \in Values(f) : hk \in SMembers(d, AbsKey(f, x)) <=> x = v
            /\ IsScalar(f) =>
                  /\ hk \in DOMAIN ZScores(d, ContKey(f))
                  /\ ZScores(d, ContKey(f))[hk] = v
            /\ HasFts(f) =>
                  \A w \in Words :
                     hk \in DOMAIN ZScores(d, FtsKey(f, w))
                        <=> w \in DOMAIN Tokenize(v)

\* C1: between completed, non-overlapping create/save/delete calls every
\* persisted record is in exactly the index entries its stored values imply
\* (the Absolute set of the stored value and no other, the Continuous
\* sorted set with the stored value as score, the token sets of the stored
\* text and no other), and no index container holds the key of a record
\* that is not persisted.
C1_IndexConsistency ==
    /\ \A hk \in Persisted(db) : RecordIndexed(db, hk)
    /\ \A k \in IndexContainers(db) : Members(db, k) \subseteq Persisted(db)

\* C2: immediately after save() returns, load() of the record's primary
\* key finds the record, and every field of the loaded instance equals the
\* saved instance's value after the db_value / python_value round trip.
C2_SaveThenLoad ==
    (last.op \in {"create", "save"} /\ last.status = "done") =>
        /\ LoadFound(db, GetHashId(last.self))
        /\ \A f \in FieldSet :
              /\ f \in DOMAIN Load(db, GetHashId(last.self))
              /\ Load(db, GetHashId(last.self))[f] = RoundTrip(f, last.self[f])

\* An update of a persisted record has returned whose text has upper-case
\* letters, a stop word and a repeated word.
C2_Witness ==
    /\ last.op = "save" /\ last.status = "done"
    /\ "HGETALL" \in Commands(last.log)
    /\ last.self["content"] = "Huey the huey message"
    /\ last.self["status"] = 2

\* The step is a delete() of a persisted record.
DeletesPersisted ==
    /\ last'.op = "delete"
    /\ HasHashId(last'.self)
    /\ Exists(db, GetHashId(last'.self))

\* Every member other than hk, with its score, is the same in d and e.
OthersUnchanged(d, e, k, hk) ==
    /\ Members(e, k) \ {hk} = Members(d, k) \ {hk}
    /\ IsSortedSetKey(k) => \A m \in Members(d, k) \ {hk} : e[k][m] = d[k][m]

\* C3: after delete() of a persisted record returns, load() of its key
\* fails, its key is in no index container that held it, and the hashes
\* and index entries of every other record are as before.
C3_DeleteRetractsAll ==
    [][DeletesPersisted =>
          LET hk == GetHashId(last'.self)
          IN  /\ last'.status = "done"
              /\ ~LoadFound(db', hk)
              /\ \A k \in IndexContainers(db) : hk \notin Members(db', k)
              /\ \A k \in Persisted(db) \ {hk} :
                    Exists(db', k) /\ db'[k] = db[k]
              /\ \A k \in IndexContainers(db) \cup IndexContainers(db') :
                    OthersUnchanged(db, db', k, hk)]_vars

\* C4: when no record is persisted, the sequence key is the only key of
\* the model that is left in the store.
C4_NoKeyLeak == Persisted(db) = {} => (DOMAIN db) \subseteq {SeqKey}

\* The step is a save() of a persisted record.
SavesPersisted ==
    /\ last'.op = "save" /\ last'.status = "done"
    /\ Exists(db, GetHashId(last'.self))

\* C5: save() and delete() retract the index entries of the values stored
\* in the primary hash, not those of the in-memory values: after save() a
\* query for a stored value that the instance changed no longer yields the
\* record, a query for the instance's value of any indexed field yields it,
\* and after delete() no query for a stored value yields it.
C5_RetractsStoredValues ==
    [][/\ SavesPersisted =>
             LET hk == GetHashId(last'.self)
             IN  \A f \in IndexedFields :
                    /\ Load(db, hk)[f] # last'.self[f]
                          => hk \notin ExecuteEq(db', f, Load(db, hk)[f])
                    /\ hk \in ExecuteEq(db', f, last'.self[f])
       /\ DeletesPersisted =>
             LET hk == GetHashId(last'.self)
             IN  \A f \in IndexedFields :
                    hk \notin ExecuteEq(db', f, Load(db, hk)[f])]_vars

\* A save() has returned that retracted a status the instance no longer
\* has.
C5_Witness ==
    /\ last.op = "save" /\ last.status = "done"
    /\ \E v \in StatusValues :
          /\ v # last.self["status"]
          /\ \E i \in 1..Len(last.log) :
                last.log[i] = Cmd2("SREM", AbsKey("status", v))

IsRetract(c) == c.c \in {"SREM", "ZREM"}

IsWrite(c) == c.c \in {"HMSET", "SADD", "ZADD"}

\* C6: in save() of a persisted record, the removals from the all index
\* and from every index container of the stored values are all issued
\* before the hash is written and before any index entry is added.
C6_RetractBeforeWrite ==
    [][SavesPersisted =>
          LET hk == GetHashId(last'.self)
              log == last'.log
          IN  /\ \A i, j \in 1..Len(log) :
                    (IsRetract(log[i]) /\ IsWrite(log[j])) => i < j
              /\ \A k \in {AllKey} \cup ImpliedKeys(Load(db, hk)) :
                    \E i \in 1..Len(log) : IsRetract(log[i]) /\ log[i].k = k
              /\ \E j \in 1..Len(log) : log[j].c = "HMSET"]_vars

\* A save() has returned that retracted the entries of a text with several
\* tokens and then wrote another text.
C6_Witness ==
    /\ last.op = "save" /\ last.status = "done"
    /\ \E i \in 1..Len(last.log) :
          last.log[i] = Cmd2("ZREM", FtsKey("content", "message"))
    /\ last.self["content"] = "huey"

\* C7: delete() on an instance whose primary hash is not in the store
\* returns without raising and leaves the keyspace as it is.
C7_DeleteMissingIsNoop ==
    [][(/\ last'.op = "delete"
        /\ ~(HasHashId(last'.self) /\ Exists(db, GetHashId(last'.self))))
          => (last'.status = "done" /\ db' = db)]_vars

StoredStatus(d) == ParseInt(HGetAll(d, CountedKey)["status"])

\* C8: when the concurrent incr() calls of all callers, each by 1, have
\* returned, the status stored in the primary hash is the number of
\* callers greater than before, whatever the interleaving.
C8_IncrementsAddUp ==
    AllReturned => StoredStatus(db) = Counted["status"] + NumCallers

\* All callers have returned, the stored status is right, and the calls
\* overlapped: the re-indexing of an earlier increment came last.
C8_Witness ==
    /\ AllReturned
    /\ StoredStatus(db) = Counted["status"] + NumCallers
    /\ CountedKey \in DOMAIN ZScores(db, ContKey("status"))
    /\ ZScores(db, ContKey("status"))[CountedKey] < StoredStatus(db)

\* C9: when the concurrent incr() calls of all callers have returned, the
\* record's Continuous score is the stored status and the record's key is
\* in the Absolute set of the stored status and in no other.
C9_IndexHasFinalValue ==
    AllReturned =>
        /\ CountedKey \in DOMAIN ZScores(db, ContKey("status"))
        /\ ZScores(db, ContKey("status"))[CountedKey] = StoredStatus(db)
        /\ \A x \in Values("status") :
              CountedKey \in SMembers(db, AbsKey("status", x))
                 <=> x = StoredStatus(db)

\* C10: concurrent create() calls get pairwise distinct primary keys from
\* the sequence, and when all have returned the primary hash of every
\* caller's key holds that caller's values.
C10_DistinctKeys ==
    /\ \A p, q \in Callers :
          (p # q /\ HasHashId(procs[p].self) /\ HasHashId(procs[q].self))
             => procs[p].self[PkField] # procs[q].self[PkField]
    /\ AllReturned =>
          \A p \in Callers :
             Load(db, GetHashId(procs[p].self)) = procs[p].self

\* All create() calls have returned, and the caller that started second in
\* the numbering got the first key: the calls overlapped or ran in the
\* other order.
C10_Witness ==
    /\ AllReturned
    /\ procs[2].self[PkField] = 1
    /\ procs[1].self[PkField] = 2

---------------------------------------------------------------------------
(* Concurrent save(): every caller holds an instance of record 1 that it   *)
(* loaded earlier, changes it and saves it; an observer reads the record   *)
(* and its index entries between any two store commands.                   *)

\* The instance caller p saves: the record with another status.
SavedInst(p) == (PkField :> 1) @@ ("status" :> p + 1) @@ Counted

InitSave ==
    /\ db = CountedDb
    /\ last = NoCall
    /\ procs = [p \in Callers |-> Idle]
    /\ ttl = <<>>

\* The callers that write: two writers overlap, the other callers read.
Savers == {1, 2}

\* Caller p calls save() on its instance.
SaveStart(p) ==
    /\ p \in Savers
    /\ procs[p].op = "idle"
    /\ procs' = [procs EXCEPT ![p] = Normalize(SaveCall(SavedInst(p)))]
    /\ UNCHANGED <<db, last, ttl>>

\* The index containers, the all index included, that hold the key hk.
Holding(d, hk) == {k \in IndexContainers(d) : hk \in Members(d, k)}

\* Another caller reads the store: Message.load(1), which raises KeyError
\* when the hash is missing, and the membership of the record's key in the
\* all index and in the index containers.
Observe ==
    /\ last = NoCall
    /\ last' = [op |-> "observe", self |-> <<>>, log |-> <<>>,
                ret |-> Cardinality(Holding(db, CountedKey)),
                status |-> IF LoadFound(db, CountedKey) THEN "done"
                           ELSE "raised"]
    /\ UNCHANGED <<db, procs, ttl>>

NextSave ==
    \/ Resume
    \/ Observe
    \/ \E p \in Callers : SaveStart(p) \/ CallerStep(p)

SpecSave == InitSave /\ [][NextSave]_vars

\* The save() of caller l has run self.delete(for_update=True) on a record
\* it found, to its end, and has not written the hash yet.
Retracted(l) ==
    /\ l.op = "save" /\ l.status = "run"
    /\ DOMAIN l.orig # {}
    /\ l.plan \in {SubSeq(WritePlan, 2, 4), SubSeq(WritePlan, 3, 4)}

\* C11: save() holds no lock between its retraction and its rewrite: while
\* one caller's save() of the persisted record stands between the two and
\* no other caller has started, the record is in no index container, the
\* all index included, and load() of its key fails; the record is
\* persisted before the saves and after all of them have returned.
C11_SaveHidesRecord ==
    /\ \A p \in Callers :
          (Retracted(procs[p]) /\ \A q \in Callers \ {p} : procs[q].op = "idle")
             => (~LoadFound(db, CountedKey) /\ Holding(db, CountedKey) = {})
    /\ (\A p \in Callers : procs[p].op = "idle") => LoadFound(db, CountedKey)
    /\ (\A p \in Savers : procs[p].op = "save" /\ procs[p].status = "done")
          => LoadFound(db, CountedKey)

\* The observer has just found the record missing everywhere while a
\* save() of it is between retraction and rewrite.
C11_Witness ==
    /\ last.op = "observe" /\ last.status = "raised" /\ last.ret = 0
    /\ \E p \in Callers : Retracted(procs[p])

---------------------------------------------------------------------------
(* Queries between completed calls.                                        *)

\* The literals of the queries on status, and the bounds of between.
StatusLiterals == 0..3

RangeOps == {"<", "<=", ">", ">="}

EqLeaves ==
    {Eq("status", v) : v \in StatusValues}
      \cup {Eq(PkField, 1), Eq("content", "huey")}

NeLeaves ==
    {Ne("status", v) : v \in StatusValues}
      \cup {Ne(PkField, 1), Ne("content", "huey")}

RangeLeaves ==
    {Cmp(op, "status", x, 0, "") : op \in RangeOps, x \in StatusLiterals}
      \cup {Between("status", lo, hi) : lo, hi \in StatusValues}
      \cup {Between("status", 0, 3)}
      \cup {Cmp("<", PkField, 2, 0, ""), Cmp(">=", PkField, 2, 0, "")}

\* The texts searched for: one word, a word of the longer text only, two
\* words in capitals, a stop-word alone and the empty text.
SearchTexts == {"huey", "message", "Message huey", "the", ""}

MatchLeaves == {Match("content", t) : t \in SearchTexts}

\* The operands of the connectives: one of each kind of result.
Operands ==
    {Eq("status", 1), Ne("status", 1), Match("content", "huey"),
     Match("content", "message")}

Connectives ==
    {And(a, b) : a, b \in Operands} \cup {Or(a, b) : a, b \in Operands}

Nested ==
    {And(Or(Eq("status", 1), Match("content", "message")), Ne(PkField, 1)),
     Or(Match("content", "the"), And(Match("content", "huey"), Eq("status", 2)))}

Expressions ==
    EqLeaves \cup NeLeaves \cup RangeLeaves \cup MatchLeaves
      \cup Connectives \cup Nested

\* The temporary keys an execution of e names.
TempKeysOf(e) ==
    {Compile(e, "r").cmds[i].k : i \in 1..Len(Compile(e, "r").cmds)}

\* The names of the nodes of the expressions: root, left, right, ...
TempPaths == {"r", "rl", "rr", "rll", "rlr", "rrl", "rrr"}

IsTempKey(k) == k \in {GetTempKey(path) : path \in TempPaths}

\* uuid4 names are fresh: none is in use in the store.
Fresh(e) == TempKeysOf(e) \cap DOMAIN db = {}

QOutcome(op, r) ==
    [op |-> op, self |-> r.l.self, log |-> r.log, ret |-> r.l.ret,
     status |-> r.l.status, ref |-> r.l.ref, orig |-> r.l.orig]

\* list(Message.query(expression)).
Query(e) ==
    /\ last = NoCall
    /\ Fresh(e)
    /\ LET r == Run(db, QueryCall(e))
       IN  db' = r.db /\ last' = QOutcome("query", r)
    /\ ttl' = RunTtl(db, ttl, QueryCall(e))
    /\ UNCHANGED procs

\* Message.get(expression).
Get(e) ==
    /\ last = NoCall
    /\ Fresh(e)
    /\ LET r == Run(db, GetCall(e))
       IN  db' = r.db /\ last' = QOutcome("get", r)
    /\ ttl' = RunTtl(db, ttl, GetCall(e))
    /\ UNCHANGED procs

\* Message.load(primary_key).
LoadPk(pk) ==
    /\ last = NoCall
    /\ LET r == Run(db, LoadCall(pk))
       IN  last' = QOutcome("load", r)
    /\ UNCHANGED <<db, procs, ttl>>

\* The store removes the key whose TTL has run out: the one with the
\* earliest deadline.
Expire ==
    /\ ttl # <<>>
    /\ db' = Del(db, Head(ttl))
    /\ ttl' = Tail(ttl)
    /\ UNCHANGED <<last, procs>>

\* Between calls the temporary results of the last query time out.
ExpireAfter == last = NoCall /\ Expire

NoTemp == \A path \in TempPaths : ~Exists(db, GetTempKey(path))

\* get() is called with the comparisons and with two connectives.
GetExpressions ==
    EqLeaves \cup NeLeaves \cup MatchLeaves
      \cup {Cmp("<=", "status", 1, 0, ""),
            And(Eq("status", 1), Match("content", "huey")),
            Or(Eq("status", 2), Match("content", "message"))}

\* The keys of the records the queries run over.
QueryIds == {1, 2}

NextQuery ==
    \/ Resume
    \/ NoTemp /\ IncrValue(db, SeqKey) \in QueryIds
              /\ \E inst \in NewInsts : Create(inst)
    \/ NoTemp /\ \E inst \in KeyedInsts : Update(inst)
    \/ NoTemp /\ \E inst \in KeyedInsts : Delete(inst)
    \/ \E e \in Expressions : Query(e)
    \/ \E e \in GetExpressions : Get(e)
    \/ \E pk \in QueryIds : LoadPk(pk)
    \/ ExpireAfter

SpecQuery == Init /\ [][NextQuery]_vars

\* The same with save() of instances built with an explicit key, and the
\* queries that read the Absolute and the full-text index.
ExplicitExpressions ==
    {Eq("status", 1), Ne("status", 1), Match("content", "message")}

NextQueryExplicit ==
    \/ Resume
    \/ NoTemp /\ IncrValue(db, SeqKey) \in QueryIds
              /\ \E inst \in NewInsts : Create(inst)
    \/ NoTemp /\ \E inst \in KeyedInsts : inst[PkField] \in QueryIds /\ Save(inst)
    \/ NoTemp /\ \E inst \in KeyedInsts : Delete(inst)
    \/ \E e \in ExplicitExpressions : Query(e)
    \/ Get(Eq("status", 1))
    \/ ExpireAfter

SpecQueryExplicit == Init /\ [][NextQueryExplicit]_vars

\* The persisted records whose stored field f equals v.
StoredEq(d, f, v) ==
    {hk \in Persisted(d) : f \in DOMAIN Load(d, hk) /\ Load(d, hk)[f] = v}

\* C12: query(f == v) yields exactly the persisted records whose stored f
\* equals v, query(f != v) exactly the other persisted records; the two
\* results are disjoint and together they are all persisted records.
C12_EqNeQueries ==
    /\ (last.op = "query" /\ last.self.op = "==") =>
          /\ last.status = "done"
          /\ last.ret.members = StoredEq(db, last.self.f, Literal(last.self))
    /\ (last.op = "query" /\ last.self.op = "!=") =>
          LET eq == SourceMembers(db, Compile(Eq(last.self.f, Literal(last.self)), "r").ref)
          IN  /\ last.status = "done"
              /\ last.ret.members =
                   Persisted(db) \ StoredEq(db, last.self.f, Literal(last.self))
              /\ last.ret.members \cap eq = {}
              /\ last.ret.members \cup eq = Persisted(db)

\* Whether the integer v compares with the literals of the comparison e.
Compares(v, e) ==
    CASE e.op = "<" -> v < e.n
      [] e.op = "<=" -> v <= e.n
      [] e.op = ">" -> v > e.n
      [] e.op = ">=" -> v >= e.n
      [] e.op = "between" -> e.n <= v /\ v <= e.m

\* C13: query(f < x), (f <= x), (f > x), (f >= x) and f.between(lo, hi)
\* yield exactly the persisted records whose stored f is below x, at most
\* x, above x, at least x, and from lo to hi: a record whose value is a
\* bound is in the result of <=, >= and between and not in that of < or >.
C13_RangeQueries ==
    (last.op = "query" /\ last.self.op \in RangeOps \cup {"between"}) =>
        /\ last.status = "done"
        /\ last.ret.members =
             {hk \in Persisted(db) : Compares(Load(db, hk)[last.self.f], last.self)}

\* Two records with status 1 and 2, and the query status <= 1 or
\* status >= 2 or between(1, 1): the record on the bound is returned, the
\* other is not.
C13_Witness ==
    /\ last.op = "query"
    /\ last.self \in {Cmp("<=", "status", 1, 0, ""), Cmp(">=", "status", 2, 0, ""),
                      Between("status", 1, 1)}
    /\ last.ret.members # {}
    /\ last.ret.members # Persisted(db)
    /\ \E hk \in last.ret.members :
          Load(db, hk)["status"] \in {last.self.n, last.self.m}

\* The sum of the scores the tokenizer gives the words in a text.
RECURSIVE TokenScoreSum(_, _)
TokenScoreSum(text, words) ==
    IF words = <<>> THEN <<0, 1>>
    ELSE FracAdd(Tokenize(text)[Head(words)], TokenScoreSum(text, Tail(words)))

\* The persisted records whose stored text has every word.
StoredWithWords(d, f, words) ==
    {hk \in Persisted(d) :
        \A i \in 1..Len(words) : words[i] \in DOMAIN Tokenize(Load(d, hk)[f])}

\* C14: query(f.match(text)) yields exactly the persisted records whose
\* stored text has every token of text, each with the sum of its scores
\* for these tokens; when text has no token the result is empty.
C14_MatchQueries ==
    (last.op = "query" /\ last.self.op = "match") =>
        LET words == TokenSeq(last.self.t)
        IN  /\ last.status = "done"
            /\ words = <<>> => last.ret.members = {}
            /\ words # <<>> =>
                 /\ last.ret.members = StoredWithWords(db, last.self.f, words)
                 /\ \A hk \in last.ret.members :
                       last.ret.scores[hk] =
                         TokenScoreSum(Load(db, hk)[last.self.f], words)

\* The sub-results of the connective e that ran at the root, as they are
\* in the store.
Left(d, e) == ResultOf(d, Compile(e.lhs, "rl").ref)

Right(d, e) == ResultOf(d, Compile(e.rhs, "rr").ref)

Mixed(d, e) == Left(d, e).t # Right(d, e).t

Scored(d, e) == IF Left(d, e).t = "zset" THEN Left(d, e) ELSE Right(d, e)

Plain(d, e) == IF Left(d, e).t = "zset" THEN Right(d, e) ELSE Left(d, e)

Swap(e) == [e EXCEPT !.lhs = e.rhs, !.rhs = e.lhs]

\* The keyspace without the temporary results left in it.
WithoutTemp(d) == [k \in {x \in DOMAIN d : ~IsTempKey(x)} |-> d[k]]

\* The members of query(e) on keyspace d: its temporary keys are fresh.
QueryMembers(d, e) == Run(WithoutTemp(d), QueryCall(e)).l.ret.members

\* The members of an AND (OR) are the intersection (union) of those of
\* the sub-results, whichever operand is on the left, and a sorted set and
\* a plain set are combined by the sorted-set command into a sorted set.
CombinedMembers(d, l) ==
    /\ l.ret.members =
         IF l.self.op = "and"
         THEN Left(d, l.self).members \cap Right(d, l.self).members
         ELSE Left(d, l.self).members \cup Right(d, l.self).members
    /\ QueryMembers(d, Swap(l.self)) = l.ret.members
    /\ Mixed(d, l.self) =>
         /\ l.ret.t = "zset"
         /\ \E i \in 1..Len(l.log) :
               /\ l.log[i].k = GetTempKey("r")
               /\ l.log[i].c =
                    IF l.self.op = "and" THEN "ZINTERSTORE" ELSE "ZUNIONSTORE"

\* The statement as claimed: the result of a sorted set and a plain set
\* has the scores of the sorted set.
C15_KeepsScores ==
    (last.op = "query" /\ IsConnective(last.self)) =>
        /\ CombinedMembers(db, last)
        /\ Mixed(db, last.self) =>
             \A m \in last.ret.members \cap Scored(db, last.self).members :
                last.ret.scores[m] = Scored(db, last.self).scores[m]

\* C15: the members of an AND (OR) node are the intersection (union) of
\* the members of its two sub-results, whichever operand is on the left;
\* a sorted set and a plain set are combined by ZINTERSTORE (ZUNIONSTORE)
\* into a sorted set, where a member's score is its score in the sorted
\* set plus 1 when it is in the plain set too, and 1 when it is in the
\* plain set only.
C15_AddsUniformWeight ==
    (last.op = "query" /\ IsConnective(last.self)) =>
        /\ CombinedMembers(db, last)
        /\ Mixed(db, last.self) =>
             \A m \in last.ret.members :
                last.ret.scores[m] =
                  IF m \notin Plain(db, last.self).members
                  THEN Scored(db, last.self).scores[m]
                  ELSE IF m \notin Scored(db, last.self).members THEN <<1, 1>>
                  ELSE FracAdd(Scored(db, last.self).scores[m], <<1, 1>>)

\* status == 1 AND content.match('huey') with a record in the result: the
\* plain set is on the left.
C15_Witness ==
    /\ last.op = "query"
    /\ last.self = And(Eq("status", 1), Match("content", "huey"))
    /\ last.ret.t = "zset"
    /\ last.ret.members # {}

---------------------------------------------------------------------------
(* One query or get(), store command by store command, while the store     *)
(* times temporary keys out and the caller may die.                        *)

\* The store the executions read: Message.create(status=1, content='huey')
\* and Message.create(status=2, content='Huey the huey message').
ExecDb ==
    Run(Run(EmptyDb, SaveCall(("status" :> 1) @@ ("content" :> "huey"))).db,
        SaveCall(("status" :> 2) @@ ("content" :> "Huey the huey message"))).db

ExecExpressions ==
    {Eq("status", 1), Ne("status", 1), Cmp("<=", "status", 1, 0, ""),
     Between("status", 1, 2), Match("content", "message"),
     Match("content", "huey"), Match("content", "the"),
     And(Ne("status", 2), Match("content", "huey")),
     Or(Eq("status", 1), Ne("status", 1)),
     And(Or(Eq("status", 1), Match("content", "message")), Ne(PkField, 1))}

\* The caller that runs the executions.
Reader == 1

InitExec ==
    /\ db = ExecDb
    /\ last = NoCall
    /\ procs = [p \in Callers |-> Idle]
    /\ ttl = <<>>

\* Message.query(e) or Message.get(e) begins.
ExecStart(call) ==
    /\ procs[Reader].op = "idle"
    /\ Fresh(call.self)
    /\ procs' = [procs EXCEPT ![Reader] = Normalize(call)]
    /\ UNCHANGED <<db, last, ttl>>

\* The next store command of the call.
ExecStep ==
    /\ CanStep(procs[Reader])
    /\ db' = Step(db, procs[Reader]).db
    /\ ttl' = TtlAfter(db, ttl, Head(procs[Reader].todo))
    /\ procs' = [procs EXCEPT ![Reader] = Step(db, procs[Reader]).l]
    /\ UNCHANGED last

\* The call has returned or raised: the caller sees the outcome.
ExecReturn ==
    /\ procs[Reader].op # "idle"
    /\ procs[Reader].status # "run"
    /\ last' = QOutcome(procs[Reader].op, [l |-> procs[Reader], log |-> <<>>])
    /\ procs' = [procs EXCEPT ![Reader] = Idle]
    /\ UNCHANGED <<db, ttl>>

\* The caller dies, or gives the call up, between two store commands.
Crash ==
    /\ procs[Reader].status = "run"
    /\ last' = [QOutcome("crash", [l |-> procs[Reader], log |-> <<>>])
                  EXCEPT !.status = "crashed"]
    /\ procs' = [procs EXCEPT ![Reader] = Idle]
    /\ UNCHANGED <<db, ttl>>

NextExec ==
    \/ \E e \in ExecExpressions : ExecStart(QueryCall(e))
    \/ \E e \in ExecExpressions : ExecStart(GetCall(e))
    \/ ExecStep
    \/ ExecReturn
    \/ Crash
    \/ Expire

SpecExec == InitExec /\ [][NextExec]_vars

\* The nodes of an expression with their paths.
RECURSIVE Nodes(_, _)
Nodes(e, path) ==
    IF IsConnective(e)
    THEN {<<e, path>>} \cup Nodes(e.lhs, path \o "l") \cup Nodes(e.rhs, path \o "r")
    ELSE {<<e, path>>}

\* executor.execute(expression) has returned to query() or get().
ExecDone(l) ==
    /\ l.op \in {"query", "get"}
    /\ l.ref # <<>>
    /\ \A i \in 1..Len(l.todo) : l.todo[i].c \notin StoreCommands \cup {"EXPIRE"}

HasTtl(k) == \E i \in 1..Len(ttl) : ttl[i] = k

\* The durable keys: all that the records of the store have put there.
DurableKeys == DOMAIN ExecDb

\* The names the keys of the model can take: the hashes, the sequence, the
\* all index and the containers of the secondary indexes.
DurableNames ==
    HashKeys \cup {SeqKey, AllKey}
      \cup {AbsKey(f, v) : f \in {PkField, "status"}, v \in 0..MaxInt}
      \cup {AbsKey("content", t) : t \in Texts \cup SearchTexts}
      \cup {ContKey(f) : f \in FieldSet}
      \cup {FtsKey("content", w) : w \in Words}

\* C16: once Executor.execute has returned, the result of every node but
\* == that exists in the store is under a temp.<uuid4> key with a TTL and
\* == has returned the durable container of the index; no execution
\* creates, changes or removes a durable key.
C16_ResultsAreTemporary ==
    /\ \A k \in DurableKeys : Exists(db, k) /\ db[k] = ExecDb[k]
    /\ \A k \in DOMAIN db : k \in DurableKeys \/ IsTempKey(k)
    /\ ExecDone(procs[Reader]) =>
         \A node \in Nodes(procs[Reader].self, "r") :
            LET ref == Compile(node[1], node[2]).ref
            IN  IF node[1].op = "=="
                THEN ref.k \in DurableNames
                ELSE /\ ref.k \notin DurableNames
                     /\ IsTempKey(ref.k)
                     /\ Exists(db, ref.k) => HasTtl(ref.k)

\* The execution of a connective over a not-equal has returned and the
\* three results are in the store.
C16_Witness ==
    /\ ExecDone(procs[Reader])
    /\ procs[Reader].self = And(Ne("status", 2), Match("content", "huey"))
    /\ \A path \in {"r", "rl", "rr"} :
          Exists(db, GetTempKey(path)) /\ HasTtl(GetTempKey(path))

\* C17: at every point during and after an execution, also when the
\* caller has died between two store commands, every temporary key in the
\* store has a TTL.
C17_TempKeysHaveTtl == \A k \in DOMAIN db : IsTempKey(k) => HasTtl(k)

\* C18: a temporary result that has timed out reads as an empty set and
\* no error comes of it: query() yields its records, get() returns the
\* record or raises the ValueError of a result that is not of one member.
C18_ExpiryIsSilent ==
    /\ last.op = "query" => last.status = "done"
    /\ last.op = "get" => last.status \in {"done", "ValueError"}

\* C19: load() of a key without a primary hash raises KeyError and returns
\* the record otherwise; get() raises ValueError when the expression does
\* not match exactly one record and returns the record when it does.
\* Neither reports its condition with the other's error.
C19_DistinctErrors ==
    /\ last.op = "load" =>
         IF LoadFound(db, GetPrimaryHashKey(last.self[PkField]))
         THEN /\ last.status = "done"
              /\ last.orig = Load(db, GetPrimaryHashKey(last.self[PkField]))
         ELSE last.status = "KeyError"
    /\ last.op = "get" =>
         IF Cardinality(QueryMembers(db, last.self)) = 1
         THEN /\ last.status = "done"
              /\ \A hk \in QueryMembers(db, last.self) : last.orig = Load(db, hk)
         ELSE last.status = "ValueError"

---------------------------------------------------------------------------
(* The parser of text queries (walrus/query.py, parse).                    *)
(*                                                                         *)
(* A query string is taken as the sequence of its tokens, as tokenize      *)
(* yields them: 'AND', 'OR', '(', ')' and words or quoted phrases.  A tree *)
(* is a word [op |-> "word", t], or an Expression [op, lhs, rhs] whose     *)
(* rhs is Sentinel while the right operand has not come.                   *)

Sentinel == [op |-> "sentinel"]

Word(t) == [op |-> "word", t |-> t]

Expression(lhs, op, rhs) == [op |-> op, lhs |-> lhs, rhs |-> rhs]

ParseTokens == {"AND", "OR", "(", ")", "huey", "message"}

Last(seq) == seq[Len(seq)]

Front(seq) == SubSeq(seq, 1, Len(seq) - 1)

\* The stacks of parse, and whether a list index has failed (IndexError).
ParseState(stacks, ok) == [stacks |-> stacks, ok |-> ok]

IndexError == ParseState(<<>>, FALSE)

\* add_to_top that joins adjacent operands with AND whatever the caller
\* has passed.
AddToTopAnd(stacks, obj, conj) ==
    IF stacks = <<>> THEN IndexError
    ELSE LET cur == Last(stacks)
             put(new) == ParseState(Append(Front(stacks), new), TRUE)
         IN  IF cur = <<>> THEN put(<<obj>>)
             ELSE IF Last(cur).op \in {"and", "or"} /\ Last(cur).lhs = Sentinel
             THEN put(Append(Front(cur), [Last(cur) EXCEPT !.lhs = obj]))
             ELSE IF Last(cur).op \in {"and", "or"} /\ Last(cur).rhs = Sentinel
             THEN put(Append(Front(cur), [Last(cur) EXCEPT !.rhs = obj]))
             ELSE put(Append(Front(cur), Expression(Last(cur), "and", obj)))

\* add_to_top(obj), with the default conjunction conj.
AddToTop(stacks, obj, conj) ==
    IF stacks = <<>> THEN IndexError
    ELSE LET cur == Last(stacks)
             put(new) == ParseState(Append(Front(stacks), new), TRUE)
         IN  IF cur = <<>> THEN put(<<obj>>)
             ELSE IF Last(cur).op \in {"and", "or"} /\ Last(cur).lhs = Sentinel
             THEN put(Append(Front(cur), [Last(cur) EXCEPT !.lhs = obj]))
             ELSE IF Last(cur).op \in {"and", "or"} /\ Last(cur).rhs = Sentinel
             THEN put(Append(Front(cur), [Last(cur) EXCEPT !.rhs = obj]))
             ELSE put(Append(Front(cur), Expression(Last(cur), conj, obj)))

\* The loop body of a parser without groups: parentheses are skipped.
ParseTokenFlat(stacks, token, conj) ==
    LET cur == Last(stacks)
    IN  CASE token \in {"AND", "OR"} ->
               IF cur = <<>> THEN IndexError
               ELSE ParseState(
                      Append(Front(stacks),
                             Append(Front(cur),
                                    Expression(Last(cur),
                                               IF token = "AND" THEN "and" ELSE "or",
                                               Sentinel))),
                      TRUE)
          [] token \in {"(", ")"} -> ParseState(stacks, TRUE)
          [] OTHER -> AddToTop(stacks, Word(token), conj)

\* The body of the loop over the tokens.
ParseToken(stacks, token, conj) ==
    LET cur == Last(stacks)
    IN  CASE token \in {"AND", "OR"} ->
               \* lhs = cur_stack.pop()
               IF cur = <<>> THEN IndexError
               ELSE ParseState(
                      Append(Front(stacks),
                             Append(Front(cur),
                                    Expression(Last(cur),
                                               IF token = "AND" THEN "and" ELSE "or",
                                               Sentinel))),
                      TRUE)
          [] token = "(" -> ParseState(Append(stacks, <<>>), TRUE)
          [] token = ")" ->
               \* top = stacks.pop(); add_to_top(top[-1])
               IF cur = <<>> THEN IndexError
               ELSE AddToTop(Front(stacks), Last(cur), conj)
          [] OTHER -> AddToTop(stacks, Word(token), conj)

RECURSIVE ParseLoop(_, _, _)
ParseLoop(st, tokens, conj) ==
    IF ~st.ok \/ tokens = <<>> THEN st
    ELSE ParseLoop(ParseToken(st.stacks, Head(tokens), conj), Tail(tokens), conj)

\* parse without its test for a blank string: the empty stack is indexed.
ParseNoBlank(tokens, conj) ==
    LET st == ParseLoop(ParseState(<<<<>>>>, TRUE), tokens, conj)
    IN  IF ~st.ok \/ Last(st.stacks) = <<>>
        THEN [status |-> "IndexError", ret |-> [op |-> "none"]]
        ELSE [status |-> "done", ret |-> Last(Last(st.stacks))]

\* parse(s): None for a blank string, the tree on top of the innermost
\* stack still open otherwise.
Parse(tokens, conj) ==
    LET st == ParseLoop(ParseState(<<<<>>>>, TRUE), tokens, conj)
    IN  IF tokens = <<>> THEN [status |-> "done", ret |-> [op |-> "none"]]
        ELSE IF ~st.ok \/ Last(st.stacks) = <<>>
        THEN [status |-> "IndexError", ret |-> [op |-> "none"]]
        ELSE [status |-> "done", ret |-> Last(Last(st.stacks))]

TokenSeqs == UNION {[1..n -> ParseTokens] : n \in 0..MaxTokens}

\* parse(s) of one query string.
ParseCall(tokens) ==
    /\ last = NoCall
    /\ last' = [op |-> "parse", self |-> tokens, log |-> <<>>,
                ret |-> Parse(tokens, "and").ret,
                status |-> Parse(tokens, "and").status]
    /\ UNCHANGED <<db, procs, ttl>>

NextParse == Resume \/ \E tokens \in TokenSeqs : ParseCall(tokens)

SpecParse == Init /\ [][NextParse]_vars

\* The depth of the parentheses after the tokens, -1 once a ')' has come
\* without its '('.
RECURSIVE Depth(_, _)
Depth(tokens, n) ==
    IF tokens = <<>> \/ n < 0 THEN n
    ELSE Depth(Tail(tokens),
               CASE Head(tokens) = "(" -> n + 1
                 [] Head(tokens) = ")" -> n - 1
                 [] OTHER -> n)

Unbalanced(tokens) == Depth(tokens, 0) # 0

\* An AND or OR at the start, after '(' or after a connective lacks its
\* left operand; one at the end, before ')' or before a connective lacks
\* its right operand.
Dangling(tokens) ==
    \E i \in 1..Len(tokens) :
       /\ tokens[i] \in {"AND", "OR"}
       /\ \/ i = 1
          \/ i = Len(tokens)
          \/ tokens[i - 1] \in {"AND", "OR", "("}
          \/ tokens[i + 1] \in {"AND", "OR", ")"}

\* C20: parse raises an error for every query string with unbalanced
\* parentheses and for every one where an AND or OR lacks an operand: it
\* returns no tree for such a string.
C20_MalformedRaises ==
    (last.op = "parse" /\ (Unbalanced(last.self) \/ Dangling(last.self))) =>
        last.status # "done"

---------------------------------------------------------------------------
(* Text search: Message.query(Message.content.search(s, conjunction)).     *)

\* The tree of parse as an expression: with a field, parse wraps every
\* word as field.match(word).
RECURSIVE ToExpression(_, _)
ToExpression(f, tree) ==
    IF tree.op = "word" THEN Match(f, tree.t)
    ELSE [op |-> tree.op, lhs |-> ToExpression(f, tree.lhs),
          rhs |-> ToExpression(f, tree.rhs)]

\* Model.query() without an expression: the all index is the result.
QueryAllCall ==
    [NewCaller("query", <<>>, <<"q_read", "q_load">>, PkField, 0)
       EXCEPT !.ref = Ref(AllKey, "set")]

\* Node.search(search_query, default_conjunction=OP_AND):
\* parse(search_query, self, default_conjunction), and then Model.query of
\* what it returns.  conj is "omitted" when the caller passes none.
SearchCall(f, tokens, conj) ==
    LET p == Parse(tokens, IF conj = "omitted" THEN "and" ELSE conj)
    IN  IF p.status # "done"
        THEN [NewCaller("query", <<>>, <<>>, PkField, 0) EXCEPT !.status = "IndexError"]
        ELSE IF p.ret.op = "none" THEN QueryAllCall
        ELSE QueryCall(ToExpression(f, p.ret))

\* The query strings searched for, as their tokens.
SearchQueries ==
    {<<>>, <<"huey">>, <<"and">>, <<"(", "(", "huey", ")", ")">>,
     <<"huey", "AND", "message">>, <<"huey", "OR", "message">>,
     <<"and", "OR", "huey">>,
     <<"the", "AND", "huey", "OR", "message">>,
     <<"message", "OR", "huey", "AND", "the">>,
     <<"the", "AND", "(", "huey", "OR", "message", ")">>,
     <<"(", "message", "OR", "huey", ")", "AND", "the">>,
     <<"message", "OR", "(", "huey", "AND", "the", ")">>,
     <<"huey", "message">>, <<"huey", "the">>, <<"huey", "and", "message">>,
     <<"message", "OR", "huey", "the">>, <<"the", "huey", "OR", "message">>,
     <<"the", "(", "message", "huey", ")">>, <<"(", "huey", ")", "(", "the", ")">>}

Conjunctions == {"and", "or", "omitted"}

\* list(Message.query(Message.content.search(s, conj))).
Search(tokens, conj) ==
    /\ last = NoCall
    /\ NoTemp
    /\ LET r == Run(db, SearchCall("content", tokens, conj))
       IN  /\ db' = r.db
           /\ last' = [tokens |-> tokens, conj |-> conj] @@ QOutcome("search", r)
    /\ ttl' = RunTtl(db, ttl, SearchCall("content", tokens, conj))
    /\ UNCHANGED procs

NextSearch ==
    \/ Resume
    \/ NoTemp /\ IncrValue(db, SeqKey) \in QueryIds
              /\ \E inst \in NewInsts : Create(inst)
    \/ NoTemp /\ \E inst \in KeyedInsts : Update(inst)
    \/ NoTemp /\ \E inst \in KeyedInsts : Delete(inst)
    \/ \E tokens \in SearchQueries, conj \in Conjunctions : Search(tokens, conj)
    \/ ExpireAfter

SpecSearch == Init /\ [][NextSearch]_vars

\* The records a formula over sets of records holds for, read off the
\* tokens from left to right: a term stands for the records that match
\* it, AND for the intersection, OR for the union, a parenthesised group
\* for its own value, and two adjacent operands are joined by conj.
RECURSIVE Primary(_, _, _), Formula(_, _, _), Rest(_, _, _, _)
Primary(d, toks, conj) ==
    IF Head(toks) = "("
    THEN LET g == Formula(d, Tail(toks), conj)
         IN  [val |-> g.val, rest |-> Tail(g.rest)]
    ELSE [val |-> QueryMembers(d, Match("content", Head(toks))),
          rest |-> Tail(toks)]

Formula(d, toks, conj) ==
    LET p == Primary(d, toks, conj) IN Rest(d, p.val, p.rest, conj)

Rest(d, acc, toks, conj) ==
    IF toks = <<>> \/ Head(toks) = ")" THEN [val |-> acc, rest |-> toks]
    ELSE LET op == IF Head(toks) = "AND" THEN "and"
                   ELSE IF Head(toks) = "OR" THEN "or" ELSE conj
             p == Primary(d, IF Head(toks) \in {"AND", "OR"} THEN Tail(toks) ELSE toks,
                          conj)
         IN  Rest(d, IF op = "and" THEN acc \cap p.val ELSE acc \cup p.val,
                  p.rest, conj)

\* Two operands (terms or groups) with no connective between them.
Adjacent(tokens) ==
    \E i \in 1..(Len(tokens) - 1) :
        /\ tokens[i] \notin {"AND", "OR", "("}
        /\ tokens[i + 1] \notin {"AND", "OR", ")"}

WellFormed(tokens) ==
    tokens # <<>> /\ ~Unbalanced(tokens) /\ ~Dangling(tokens)

\* C21: a search for a well-formed query whose operands are all joined by
\* AND or OR returns exactly the records of its formula, read from left to
\* right without precedence, a term standing for the records that match it.
C21_SearchIsFormula ==
    (last.op = "search" /\ WellFormed(last.tokens) /\ ~Adjacent(last.tokens)) =>
        /\ last.status \in {"done", "KeyError"}
        /\ last.ret.members = Formula(db, last.tokens, "and").val
        /\ last.ret.members = Formula(db, last.tokens, "or").val

\* "message OR huey AND the" finds nothing although a record has
\* "message": AND does not bind tighter than OR.
C21_Witness ==
    /\ last.op = "search"
    /\ last.tokens = <<"message", "OR", "huey", "AND", "the">>
    /\ last.status = "done"
    /\ last.ret.members = {}
    /\ QueryMembers(db, Match("content", "message")) # {}

\* C22: operands of a well-formed query that stand next to each other with
\* no connective between them are joined by the default conjunction, AND
\* unless the caller passes OR, and the connectives that are written keep
\* their meaning.
C22_DefaultConjunction ==
    (last.op = "search" /\ WellFormed(last.tokens) /\ Adjacent(last.tokens)) =>
        /\ last.status \in {"done", "KeyError"}
        /\ last.ret.members =
             Formula(db, last.tokens, IF last.conj = "or" THEN "or" ELSE "and").val

\* "huey the" with OR passed finds the records of "huey", which "the"
\* (matching nothing) would exclude under AND.
C22_Witness ==
    /\ last.op = "search"
    /\ last.tokens = <<"huey", "the">>
    /\ last.conj = "or"
    /\ last.status = "done"
    /\ last.ret.members # {}
    /\ Formula(db, last.tokens, "and").val = {}

\* C23: a search for the blank string raises nothing, builds no filter (it
\* reads the all index only) and returns every persisted record.
C23_BlankSelectsAll ==
    (last.op = "search" /\ last.tokens = <<>>) =>
        /\ last.status = "done"
        /\ last.ret.members = Persisted(db)
        /\ \A i \in 1..Len(last.log) :
              last.log[i].k = AllKey /\ last.log[i].c \notin StoreCommands

C23_Witness ==
    /\ last.op = "search"
    /\ last.tokens = <<>>
    /\ last.status = "done"
    /\ Cardinality(last.ret.members) = 2

---------------------------------------------------------------------------
(* Class construction: BaseModel.__new__(cls, name, bases, attrs).         *)

\* A field declaration: the attribute name and Field._primary_key.
Decl(name, pk) == [name |-> name, pk |-> pk]

\* The loop over attrs: the last declaration with _primary_key, <<>> for
\* None.
RECURSIVE DeclaredKey(_, _)
DeclaredKey(attrs, found) ==
    IF attrs = <<>> THEN found
    ELSE DeclaredKey(Tail(attrs),
                     IF Head(attrs).pk THEN <<Head(attrs).name>> ELSE found)

\* The loop over the fields of the base class: a key of the base is
\* ignored when the class has one, else taken over; other fields are
\* copied unless the class declares the name itself.
RECURSIVE Inherit(_, _)
Inherit(c, base) ==
    IF base = <<>> THEN c
    ELSE LET b == Head(base)
         IN  Inherit(
               IF \E i \in 1..Len(c.attrs) : c.attrs[i].name = b.name THEN c
               ELSE IF b.pk /\ c.primary_key # <<>>
               THEN [c EXCEPT !.ignore = @ \cup {b.name}]
               ELSE [c EXCEPT !.attrs = Append(@, b),
                              !.primary_key = IF b.pk THEN <<b.name>> ELSE @],
               Tail(base))

\* The model class: its _fields, its _primary_key and how the
\* construction ended.  No statement of __new__ raises.
NewClass(attrs, base) ==
    LET c == Inherit([attrs |-> attrs, primary_key |-> DeclaredKey(attrs, <<>>),
                      ignore |-> {}], base)
        all == IF c.primary_key # <<>> THEN c.attrs
               ELSE Append(SelectSeq(c.attrs, LAMBDA a : a.name # PkField),
                           Decl(PkField, TRUE))
    IN  [fields |-> {all[i] : i \in 1..Len(all)},
         primary_key |-> IF c.primary_key # <<>> THEN c.primary_key[1] ELSE PkField,
         status |-> "done"]

AttrNames == {"_id", "email", "status"}

\* The bodies of the class statements: each name declared once, in any
\* order, as a key or not.
ClassBodies ==
    {a \in UNION {[1..n -> {Decl(f, pk) : f \in AttrNames, pk \in BOOLEAN}] :
                     n \in 0..Cardinality(AttrNames)} :
        \A i, j \in 1..Len(a) : a[i].name = a[j].name => i = j}

\* The fields of the base class: Model itself, or a model with fields.
BaseBodies ==
    {<<>>, <<Decl("uid", TRUE)>>, <<Decl("status", FALSE)>>,
     <<Decl("uid", TRUE), Decl("status", FALSE)>>}

\* class M(Base): <attrs>
ClassStatement(attrs, base) ==
    /\ last = NoCall
    /\ last' = [op |-> "class", self |-> attrs, base |-> base, log |-> <<>>,
                ret |-> NewClass(attrs, base),
                status |-> NewClass(attrs, base).status]
    /\ UNCHANGED <<db, procs, ttl>>

NextClass ==
    \/ Resume
    \/ \E attrs \in ClassBodies, base \in BaseBodies : ClassStatement(attrs, base)

SpecClass == Init /\ [][NextClass]_vars

\* The declarations of the class body that are primary keys.
DeclaredKeys(attrs) == {i \in 1..Len(attrs) : attrs[i].pk}

\* C24: a class statement that declares more than one primary-key field
\* raises, and no class is made that has two primary-key fields.
C24_TwoKeysRaise ==
    last.op = "class" =>
        /\ Cardinality(DeclaredKeys(last.self)) > 1 => last.status = "raised"
        /\ last.status = "done" =>
             Cardinality({f \in last.ret.fields : f.pk}) = 1

---------------------------------------------------------------------------
(* Key naming, for any field names and values.                             *)

\* A logical container of a model: the primary hash of a key value, the
\* all index, the sequence of the key field, or the index of a field, of
\* a kind and (Absolute, full-text) of a value.  Values are as make_key
\* prints them, str(value).
Container(kind, field, value) == [kind |-> kind, field |-> field, value |-> value]

\* The name make_key gives the container.
KeyOf(c) ==
    CASE c.kind = "hash" -> MakeKey(<<"id", c.value>>)
      [] c.kind = "all" -> MakeKey(<<"all">>)
      [] c.kind = "sequence" -> MakeKey(<<c.field, "_sequence">>)
      [] c.kind = "absolute" -> MakeKey(<<c.field, "absolute", c.value>>)
      [] c.kind = "continuous" -> MakeKey(<<c.field, "continuous">>)
      [] c.kind = "fts" -> MakeKey(<<c.field, "fts", c.value>>)

NamedFields == {"id", "name", "data"}

NamedValues == {"3", "huey", "huey.zai", "absolute.3"}

Containers ==
    {Container("hash", "", v) : v \in NamedValues}
      \cup {Container("all", "", "")}
      \cup {Container("sequence", f, "") : f \in NamedFields}
      \cup {Container("continuous", f, "") : f \in NamedFields}
      \cup {Container(k, f, v) :
              k \in {"absolute", "fts"}, f \in NamedFields, v \in NamedValues}

\* The keys of two containers of the model are computed.
NameKeys(c1, c2) ==
    /\ last = NoCall
    /\ last' = [op |-> "keys", self |-> <<c1, c2>>, log |-> <<>>,
                ret |-> <<KeyOf(c1), KeyOf(c2)>>, status |-> "done"]
    /\ UNCHANGED <<db, procs, ttl>>

NextKeys ==
    \/ Resume
    \/ \E c1, c2 \in Containers : NameKeys(c1, c2)

SpecKeys == Init /\ [][NextKeys]_vars

\* C25: two different containers of a model never get the same key.
C25_KeysDistinct ==
    (last.op = "keys" /\ last.self[1] # last.self[2]) => last.ret[1] # last.ret[2]

---------------------------------------------------------------------------
(* incr() between completed calls.                                         *)

IncrAmounts == {1, 2}

\* The counters are incremented up to this value.
MaxCount == 4

\* instance.incr(Message.status, n) on an instance of a persisted record:
\* as loaded, or with other values in memory.
IncrOn(inst, n) ==
    /\ last = NoCall
    /\ Exists(db, GetPrimaryHashKey(inst[PkField]))
    /\ Load(db, GetPrimaryHashKey(inst[PkField]))["status"] + n <= MaxCount
    /\ LET r == Run(db, IncrCall(inst, "status", n))
       IN  /\ db' = r.db
           /\ last' = [before |-> inst, by |-> n] @@ Outcome("incr", r)
    /\ UNCHANGED <<procs, ttl>>

NextIncrOne ==
    \/ Resume
    \/ IncrValue(db, SeqKey) \in QueryIds /\ \E inst \in NewInsts : Create(inst)
    \/ \E inst \in KeyedInsts : Delete(inst)
    \/ \E inst \in KeyedInsts \cup {Load(db, hk) : hk \in Persisted(db)},
          n \in IncrAmounts : IncrOn(inst, n)

SpecIncrOne == Init /\ [][NextIncrOne]_vars

\* The keys incr(status) of record hk may write when the value goes from
\* old to new.
IncrKeys(hk, old, new) ==
    {hk, AbsKey("status", old), AbsKey("status", new), ContKey("status")}

\* Keyspaces d and e agree outside the entries of hk for status: the other
\* keys, the other fields of the hash, the other members of the Absolute
\* sets and the other scores.
OnlyStatusOf(d, e, hk, old, new) ==
    /\ \A k \in (DOMAIN d \cup DOMAIN e) \ IncrKeys(hk, old, new) :
          k \in DOMAIN d /\ k \in DOMAIN e /\ d[k] = e[k]
    /\ \A f \in DOMAIN HGetAll(d, hk) \ {"status"} :
          f \in DOMAIN HGetAll(e, hk) /\ HGetAll(e, hk)[f] = HGetAll(d, hk)[f]
    /\ DOMAIN HGetAll(e, hk) = DOMAIN HGetAll(d, hk)
    /\ \A x \in {old, new} :
          SMembers(e, AbsKey("status", x)) \ {hk}
             = SMembers(d, AbsKey("status", x)) \ {hk}
    /\ \A m \in (DOMAIN ZScores(d, ContKey("status"))
                   \cup DOMAIN ZScores(e, ContKey("status"))) \ {hk} :
          /\ m \in DOMAIN ZScores(d, ContKey("status"))
          /\ m \in DOMAIN ZScores(e, ContKey("status"))
          /\ ZScores(e, ContKey("status"))[m] = ZScores(d, ContKey("status"))[m]

\* C26: incr(status, n) on an instance whose status in memory is the stored
\* one stores the old value plus n, returns it and sets it on the
\* instance, moves the record's key from the Absolute set of the old value
\* to that of the new one, sets its Continuous score to the new value, and
\* changes nothing else.
C26_IncrPostcondition ==
    [][(/\ last'.op = "incr"
        /\ last'.before["status"]
             = Load(db, GetPrimaryHashKey(last'.before[PkField]))["status"])
          => LET hk == GetPrimaryHashKey(last'.before[PkField])
                 old == Load(db, hk)["status"]
                 new == old + last'.by
             IN  /\ last'.status = "done"
                 /\ Load(db', hk)["status"] = new
                 /\ last'.ret = new
                 /\ last'.self["status"] = new
                 /\ hk \in SMembers(db', AbsKey("status", new))
                 /\ hk \notin SMembers(db', AbsKey("status", old))
                 /\ hk \in DOMAIN ZScores(db', ContKey("status"))
                 /\ ZScores(db', ContKey("status"))[hk] = new
                 /\ OnlyStatusOf(db, db', hk, old, new)]_vars

\* An incr by 2 has returned 3 on a record that is stored with status 3.
C26_Witness ==
    /\ last.op = "incr" /\ last.status = "done"
    /\ last.by = 2 /\ last.ret = 3
    /\ last.before["status"] = 1
    /\ Load(db, GetPrimaryHashKey(last.before[PkField]))["status"] = 3

---------------------------------------------------------------------------
(* Model.query_delete(expression) and Model.count().                       *)

\* The first half of query_delete: the result it is going to iterate.
\* <<>> stands for expression=None, whose result is the all index.
QueryDeleteCall(e) ==
    IF e = <<>>
    THEN [NewCaller("query_delete", e, <<"q_read">>, PkField, 0)
            EXCEPT !.ref = Ref(AllKey, "set")]
    ELSE NewCaller("query_delete", e, <<"q_exec", "q_read">>, PkField, 0)

\* for hash_id in result: cls.load(hash_id, convert_key=False).delete(),
\* on the members ms that the scan of a Set returns.  The deletes of
\* different records do not touch each other's entries.
RECURSIVE DeleteEach(_, _, _)
DeleteEach(d, ms, log) ==
    IF ms = {} THEN [db |-> d, status |-> "done", log |-> log]
    ELSE LET hk == CHOOSE m \in ms : TRUE
         IN  IF ~Exists(d, hk) THEN [db |-> d, status |-> "KeyError", log |-> log]
             ELSE DeleteEach(Run(d, DeleteCall(Load(d, hk))).db, ms \ {hk},
                             log \o Run(d, DeleteCall(Load(d, hk))).log)

\* query_delete to its end.  Iterating a ZSet yields (member, score)
\* pairs (ZSet.__iter__ is zscan_iter), and load() of a pair raises: the
\* pair is no key of the store.
QueryDeleteRun(d, e) ==
    LET q == Run(d, QueryDeleteCall(e))
        res == q.l.ret
    IN  IF res.t = "zset" /\ res.members # {}
        THEN [db |-> q.db, status |-> "raised", log |-> q.log, ret |-> res]
        ELSE [ret |-> res] @@ DeleteEach(q.db, res.members, q.log)

DeleteExpressions ==
    {<<>>, Eq("status", 1),
     Or(Eq("status", 1), Eq("content", "huey")), Match("content", "huey")}

\* Message.query_delete(e).
QueryDelete(e) ==
    /\ last = NoCall
    /\ NoTemp
    /\ LET r == QueryDeleteRun(db, e)
       IN  /\ db' = r.db
           /\ last' = [op |-> "query_delete", self |-> e, log |-> r.log,
                       ret |-> r.ret, status |-> r.status]
    /\ ttl' = RunTtl(db, ttl, QueryDeleteCall(e))
    /\ UNCHANGED procs

\* Message.count(): len(cls._query.all_index()).
ModelCount ==
    /\ last = NoCall
    /\ last' = [op |-> "count", self |-> <<>>, log |-> <<Cmd2("SCARD", AllKey)>>,
                ret |-> SCard(db, AllKey), status |-> "done"]
    /\ UNCHANGED <<db, procs, ttl>>

\* The texts of the records that are created and saved before a delete.
DeleteTexts == {"", "huey"}

NextDelete ==
    \/ Resume
    \/ NoTemp /\ IncrValue(db, SeqKey) \in QueryIds
              /\ \E inst \in NewInsts :
                    inst["content"] \in DeleteTexts /\ Create(inst)
    \/ NoTemp /\ \E inst \in KeyedInsts :
                    /\ inst[PkField] \in QueryIds
                    /\ inst["content"] \in DeleteTexts
                    /\ Save(inst)
    \/ NoTemp /\ \E hk \in Persisted(db) : Delete(Load(db, hk))
    \/ \E e \in DeleteExpressions : QueryDelete(e)
    \/ ModelCount
    \/ ExpireAfter

SpecDelete == Init /\ [][NextDelete]_vars

\* C27: between completed calls the all index holds a key exactly when the
\* key's primary hash exists, count() is the number of persisted records,
\* and saving a record that exists leaves the count as it is.
C27_AllIndexIsRecords ==
    /\ [](/\ SMembers(db, AllKey) = Persisted(db)
          /\ last.op = "count" => last.ret = Cardinality(Persisted(db)))
    /\ [][(/\ last'.op = "save"
           /\ Exists(db, GetPrimaryHashKey(last'.self[PkField])))
             => SCard(db', AllKey) = SCard(db, AllKey)]_vars

\* count() has answered 2 and two records are persisted.
C27_Witness ==
    /\ last.op = "count"
    /\ last.ret = 2
    /\ Cardinality(Persisted(db)) = 2

\* The records expression e matches on keyspace d; all of them for none.
Matched(d, e) == IF e = <<>> THEN Persisted(d) ELSE QueryMembers(d, e)

\* The index containers of the model, temporary results apart.
DurableIndexes(d) == {k \in IndexContainers(d) : ~IsTempKey(k)}

\* C28: query_delete(e) returns, the records that matched e when it was
\* called are gone with their entry in the all index and in every index,
\* and the other records and their entries are as before; without an
\* expression every record is deleted.
C28_QueryDeleteExact ==
    [][last'.op = "query_delete" =>
         LET gone == Matched(db, last'.self)
         IN  /\ last'.status = "done"
             /\ Persisted(db') = Persisted(db) \ gone
             /\ \A hk \in Persisted(db') : db'[hk] = db[hk]
             /\ \A k \in DurableIndexes(db) \cup DurableIndexes(db') :
                   (IF k \in DOMAIN db' THEN Members(db', k) ELSE {})
                      = (IF k \in DOMAIN db THEN Members(db, k) ELSE {}) \ gone
             /\ last'.self = <<>> => Persisted(db') = {}]_vars

\* The part of keyspace d under the names of the model's own keys.
Durable(d) == [k \in DOMAIN d \cap DurableNames |-> d[k]]

ReadCommands == {"MEMBERS", "LOADALL", "LEN", "FIRST", "LOAD_EXISTS", "HGETALL"}

\* C29: a call of query(e) or get(e) leaves every hash, the sequence, the
\* all index and every index container as they were, the container that ==
\* returns included: what it writes is under temporary names only.  Hence
\* the same call made again answers the same.
C29_QueriesReadOnly ==
    [][last'.op \in {"query", "get"} =>
         /\ Durable(db') = Durable(db)
         /\ \A i \in 1..Len(last'.log) :
               last'.log[i].c \notin ReadCommands =>
                  (IsTempKey(last'.log[i].k) /\ last'.log[i].k \notin DurableNames)
         /\ LET again == Run(WithoutTemp(db'),
                             IF last'.op = "query" THEN QueryCall(last'.self)
                             ELSE GetCall(last'.self)).l
            IN  again.status = last'.status /\ again.ret = last'.ret]_vars

\* get(status == 1) has returned the one record of the Absolute set it was
\* handed, and the record is still in that set.
C29_Witness ==
    /\ last.op = "get" /\ last.self = Eq("status", 1)
    /\ last.status = "done"
    /\ SMembers(db, AbsKey("status", 1)) = {last.ret[1]}
    /\ Run(WithoutTemp(db), GetCall(last.self)).l.ret = last.ret

---------------------------------------------------------------------------
(* Database.atomic(): nested with-blocks of one thread.                    *)
(*                                                                         *)
(* procs is the thread's state here: pipes, the stack of pipelines of its  *)
(* TransactionLocal (a pipeline is the sequence of its queued commands),   *)
(* and open, the number of with-blocks entered and not left.  Block j is   *)
(* the j-th open block, counted from the outermost, and its handle is the  *)
(* _Atomic object that its with-statement bound.  A queued command is      *)
(* SET k v with via, the handle it was queued through, and at, the block  *)
(* whose body was running when it was queued (the innermost open one);    *)
(* the value written names the handle.                                     *)

\* The blocks nest up to this depth.
MaxDepth == 2

AtomicKeys == {"k1", "k2"}

\* Commands are queued while fewer than this many are pending.
PendingSizes == {0, 1}

InitAtomic ==
    /\ db = EmptyDb
    /\ last = NoCall
    /\ procs = [pipes |-> <<>>, open |-> 0]
    /\ ttl = <<>>

\* One pipeline for the whole thread, whatever block is open.
PipeBottom(pipes) == 1

\* TransactionLocal.pipe: the pipeline on top of the stack.
Pipe(pipes) == Len(pipes)

\* Pipeline.execute(): the queued commands take effect in their order.
RECURSIVE Execute(_, _)
Execute(d, cmds) ==
    IF cmds = <<>> THEN d
    ELSE Execute(Put(d, Head(cmds).k, Head(cmds).v), Tail(cmds))

\* Database.get_transaction: local.pipes.append(self.pipeline()).
GetTransaction(pipes) == Append(pipes, <<>>)

\* Every command that is queued and not yet executed, outermost first.
RECURSIVE Pending(_)
Pending(pipes) ==
    IF pipes = <<>> THEN <<>> ELSE Head(pipes) \o Pending(Tail(pipes))

\* with db.atomic() as a: _Atomic.__enter__.
Enter ==
    /\ procs.open < MaxDepth
    /\ procs' = [pipes |-> GetTransaction(procs.pipes), open |-> procs.open + 1]
    /\ last' = [op |-> "enter", self |-> procs.open + 1, log |-> <<>>,
                ret |-> 0, status |-> "done"]
    /\ UNCHANGED <<db, ttl>>

\* a.pipe.set(k, v) through the handle of open block j: _Atomic.pipe is
\* db._transaction_local.pipe, the pipeline on top of the stack.
Queue(j, k) ==
    /\ j \in 1..procs.open
    /\ procs.pipes # <<>>
    /\ Len(Pending(procs.pipes)) \in PendingSizes
    /\ procs' = [procs EXCEPT
                   !.pipes[Pipe(procs.pipes)] =
                       Append(@, [k |-> k, v |-> Str(j), via |-> j,
                                   at |-> procs.open])]
    /\ last' = [op |-> "queue", self |-> j, log |-> <<>>, ret |-> 0,
                status |-> "done"]
    /\ UNCHANGED <<db, ttl>>

\* The innermost block ends normally: __exit__ without an exception,
\* commit(False), commit_transaction, TransactionLocal.commit.
ExitNormal ==
    /\ procs.open > 0
    /\ IF procs.pipes = <<>>
       THEN /\ db' = db
            /\ procs' = [procs EXCEPT !.open = @ - 1]
            /\ last' = [op |-> "exit", self |-> procs.open, log |-> <<>>,
                        ret |-> 0, status |-> "ValueError"]
       ELSE /\ db' = Execute(db, Last(procs.pipes))
            /\ procs' = [pipes |-> Front(procs.pipes), open |-> procs.open - 1]
            /\ last' = [op |-> "exit", self |-> procs.open,
                        log |-> Last(procs.pipes), ret |-> 0, status |-> "done"]
    /\ UNCHANGED ttl

\* The innermost block ends by an exception: clear(False),
\* clear_transaction, TransactionLocal.abort.
ExitRaise ==
    /\ procs.open > 0
    /\ procs' = [pipes |-> IF procs.pipes = <<>> THEN <<>> ELSE Front(procs.pipes),
                 open |-> procs.open - 1]
    /\ last' = [op |-> "exit", self |-> procs.open,
                log |-> IF procs.pipes = <<>> THEN <<>> ELSE Last(procs.pipes),
                ret |-> 0, status |-> "raised"]
    /\ UNCHANGED <<db, ttl>>

\* a.clear() through the handle of open block j: the top pipeline is
\* dropped and a new one begun.
Clear(j) ==
    /\ j \in 1..procs.open
    /\ procs.pipes # <<>>
    /\ procs' = [procs EXCEPT !.pipes = GetTransaction(Front(procs.pipes))]
    /\ last' = [op |-> "clear", self |-> j, log |-> <<>>, ret |-> 0,
                status |-> "done"]
    /\ UNCHANGED <<db, ttl>>

NextAtomic ==
    \/ Enter
    \/ \E j \in 1..MaxDepth, k \in AtomicKeys : Queue(j, k)
    \/ ExitNormal
    \/ ExitRaise
    \/ \E j \in 1..MaxDepth : Clear(j)

SpecAtomic == InitAtomic /\ [][NextAtomic]_vars

\* The pending commands that were queued through the handle of block j.
QueuedThrough(pipes, j) == SelectSeq(Pending(pipes), LAMBDA c : c.via = j)

\* C30: the stack holds one pipeline for each open block, none when no
\* block is open; a step that queues a command leaves the store as it is;
\* and when a block exits normally the store changes by the pending
\* commands queued through that block's handle, and by no others.
C30_AtomicBlocks ==
    /\ [](Len(procs.pipes) = procs.open)
    /\ [][/\ last'.op = "queue" => db' = db
          /\ (last'.op = "exit" /\ last'.status = "done") =>
                db' = Execute(db, QueuedThrough(procs.pipes, last'.self))
          /\ (last'.op = "exit" /\ last'.status # "done") => db' = db]_vars

\* The pending commands that were queued in the body of block j.
QueuedIn(pipes, j) == SelectSeq(Pending(pipes), LAMBDA c : c.at = j)

\* The pending commands that were queued in the body of another block.
QueuedOutside(pipes, j) == SelectSeq(Pending(pipes), LAMBDA c : c.at # j)

---------------------------------------------------------------------------
(* RateLimit.limit(key), called by concurrent callers.                     *)
(*                                                                         *)
(* db holds the list under each counter key, newest timestamp first.  ttl  *)
(* is the store's clock and the deadlines of its keys: now, in seconds,    *)
(* and dead, the deadline of every key that has one.  procs is each        *)
(* caller's position in limit(): a step is one store command.  last is the *)
(* outcome of the call that returned last, and allowed, for every key and  *)
(* every time, the number of calls decided at that time that returned      *)
(* False.                                                                  *)

\* RateLimit._limit: the number of events allowed in a period.
Limit == 2

\* RateLimit._per: the period, in seconds.
Per == 2

\* The clock stops here.
MaxTime == 4

RateKeys == {"k1", "k2"}

Limiters == {1, 2}

\* A call starts while this many calls have been allowed.
AllowedSizes == {0, 1, 2}

Times == 0..MaxTime

\* RateLimit.limit: self.name + ':' + key.
CounterKey(key) == "rl:" \o key

\* LLEN: a key that is not there is an empty list.
LLen(d, k) == IF k \in DOMAIN d THEN Len(d[k]) ELSE 0

\* LPUSH.
LPush(d, k, v) == Put(d, k, <<v>> \o (IF k \in DOMAIN d THEN d[k] ELSE <<>>))

\* LTRIM k 0 stop: the list keeps its elements 0..stop.
LTrim(d, k, stop) ==
    IF k \notin DOMAIN d THEN d
    ELSE IF stop < 0 THEN Del(d, k)
    ELSE Put(d, k, SubSeq(d[k], 1, IF Len(d[k]) < stop + 1 THEN Len(d[k])
                                   ELSE stop + 1))

\* List.__delitem__ with the slice [:stop]: LTRIM key 0 stop-1.
DelSlice(d, k, stop) == LTrim(d, k, IF stop > 0 THEN stop - 1 ELSE -1)

\* counter.pexpire(int(self._per * 2000)), in seconds.
PExpireSeconds == (Per * 2000) \div 1000

Waiting == [pc |-> "idle", key |-> "", n |-> 0, oldest |-> 0, ret |-> FALSE,
            at |-> 0]

NoneAllowed == [k \in RateKeys |-> [t \in Times |-> 0]]

RECURSIVE AllowedIn(_, _, _)
\* The number of allowed calls decided at the times lo..hi.
AllowedIn(f, lo, hi) ==
    IF lo > hi THEN 0
    ELSE (IF lo \in DOMAIN f THEN f[lo] ELSE 0) + AllowedIn(f, lo + 1, hi)

AllowedCount(a) ==
    LET RECURSIVE Sum(_)
        Sum(ks) == IF ks = {} THEN 0
                   ELSE LET k == CHOOSE x \in ks : TRUE
                        IN AllowedIn(a[k], 0, MaxTime) + Sum(ks \ {k})
    IN Sum(RateKeys)

InitRate ==
    /\ db = EmptyDb
    /\ ttl = [now |-> 0, dead |-> EmptyDb]
    /\ procs = [p \in Limiters |-> Waiting]
    /\ last = [op |-> "none", self |-> "", ret |-> FALSE, at |-> 0,
               status |-> "done", allowed |-> NoneAllowed]

\* The call returns: is_limited is handed back.
Return(p, ret, status) ==
    /\ last' = [op |-> "limit", self |-> procs[p].key, ret |-> ret,
                at |-> procs[p].at, status |-> status,
                allowed |-> IF status = "done" /\ ~ret
                            THEN [last.allowed EXCEPT
                                    ![procs[p].key][procs[p].at] = @ + 1]
                            ELSE last.allowed]
    /\ procs' = [procs EXCEPT ![p] = Waiting]

\* limit(key), lines 36-39: n = len(counter); if n < self._limit.
LimitLen(p, key) ==
    /\ procs[p].pc = "idle"
    /\ AllowedCount(last.allowed) \in AllowedSizes
    /\ LET n == LLen(db, CounterKey(key))
       IN procs' = [procs EXCEPT ![p] =
                      [Waiting EXCEPT !.key = key, !.n = n,
                                      !.pc = IF n < Limit THEN "prepend"
                                             ELSE "oldest"]]
    /\ UNCHANGED <<db, last, ttl>>

\* Line 40: counter.prepend(str(time.time())).
LimitPrepend(p) ==
    /\ procs[p].pc = "prepend"
    /\ db' = LPush(db, CounterKey(procs[p].key), ttl.now)
    /\ procs' = [procs EXCEPT ![p].pc = "pexpire", ![p].at = ttl.now]
    /\ UNCHANGED <<last, ttl>>

\* Line 42: oldest = float(counter[-1]); float(None) raises TypeError.
LimitOldest(p) ==
    /\ procs[p].pc = "oldest"
    /\ IF CounterKey(procs[p].key) \in DOMAIN db
       THEN /\ procs' = [procs EXCEPT
                           ![p].pc = "compare",
                           ![p].oldest = Last(db[CounterKey(procs[p].key)])]
            /\ last' = last
       ELSE Return(p, FALSE, "TypeError")
    /\ UNCHANGED <<db, ttl>>

\* Lines 43-46: if time.time() - oldest < self._per: is_limited = True;
\* else: counter.prepend(str(time.time())).
LimitCompare(p) ==
    /\ procs[p].pc = "compare"
    /\ IF ttl.now - procs[p].oldest < Per
       THEN /\ db' = db
            /\ procs' = [procs EXCEPT ![p].pc = "trim", ![p].ret = TRUE,
                                      ![p].at = ttl.now]
       ELSE /\ db' = LPush(db, CounterKey(procs[p].key), ttl.now)
            /\ procs' = [procs EXCEPT ![p].pc = "trim", ![p].at = ttl.now]
    /\ UNCHANGED <<last, ttl>>

\* Line 47: del counter[:self._limit].
LimitTrim(p) ==
    /\ procs[p].pc = "trim"
    /\ db' = DelSlice(db, CounterKey(procs[p].key), Limit)
    /\ procs' = [procs EXCEPT ![p].pc = "pexpire"]
    /\ UNCHANGED <<last, ttl>>

\* Lines 48-49: counter.pexpire(...); return is_limited.
LimitPExpire(p) ==
    /\ procs[p].pc = "pexpire"
    /\ ttl' = IF CounterKey(procs[p].key) \in DOMAIN db
              THEN [ttl EXCEPT !.dead = Put(@, CounterKey(procs[p].key),
                                            ttl.now + PExpireSeconds)]
              ELSE ttl
    /\ Return(p, procs[p].ret, "done")
    /\ UNCHANGED db

\* A second passes; the keys whose deadline is reached are gone.
Tick ==
    /\ ttl.now < MaxTime
    /\ LET now == ttl.now + 1
           gone == {k \in DOMAIN ttl.dead : ttl.dead[k] <= now}
       IN /\ ttl' = [now |-> now,
                     dead |-> [k \in (DOMAIN ttl.dead) \ gone |-> ttl.dead[k]]]
          /\ db' = [k \in (DOMAIN db) \ gone |-> db[k]]
    /\ UNCHANGED <<last, procs>>

NextRate ==
    \/ \E p \in Limiters, key \in RateKeys : LimitLen(p, key)
    \/ \E p \in Limiters : LimitPrepend(p)
    \/ \E p \in Limiters : LimitOldest(p)
    \/ \E p \in Limiters : LimitCompare(p)
    \/ \E p \in Limiters : LimitTrim(p)
    \/ \E p \in Limiters : LimitPExpire(p)
    \/ Tick

SpecRate == InitRate /\ [][NextRate]_vars

\* The number of calls for key that were allowed in the period that ends
\* at time t.
AllowedWithin(key, t) == AllowedIn(last.allowed[key], t - Per + 1, t)

\* C32: for every key and every period of Per seconds at most Limit calls
\* were allowed; a call is refused exactly when Limit calls for its key
\* were allowed within the period that ends at the call; and a step of a
\* call for one key leaves the list and the deadline of every other key
\* as they are.
C32_RateLimit ==
    /\ [](\A key \in RateKeys, t \in Times : AllowedWithin(key, t) <= Limit)
    /\ [][/\ (last' # last /\ last'.status = "done") =>
               (last'.ret <=>
                  AllowedIn(last.allowed[last'.self],
                            last'.at - Per + 1, last'.at) >= Limit)
          /\ \A p \in Limiters, key \in RateKeys :
               (procs'[p] # procs[p] /\ key \notin {procs[p].key, procs'[p].key})
               => /\ LLen(db', CounterKey(key)) = LLen(db, CounterKey(key))
                  /\ (CounterKey(key) \in DOMAIN db =>
                        /\ CounterKey(key) \in DOMAIN db'
                        /\ db'[CounterKey(key)] = db[CounterKey(key)]
                        /\ (CounterKey(key) \in DOMAIN ttl.dead =>
                              ttl'.dead[CounterKey(key)] =
                              ttl.dead[CounterKey(key)]))]_vars

---------------------------------------------------------------------------
(* Container fields: class HashModel with name = TextField(), data =       *)
(* HashField() and tags = SetField(), and the implicit _id.  No field is   *)
(* indexed, so save() and delete() maintain the primary hash and the all   *)
(* index only.  Calls do not overlap: a step is one whole call.            *)

HashModelBase == "hashmodel:"

HashModelKey(parts) == HashModelBase \o Join(parts)

\* Query.get_primary_hash_key.
HashModelHashKey(pk) == HashModelKey(<<"id", Str(pk)>>)

HashModelAll == HashModelKey(<<"all">>)

HashModelSeq == HashModelKey(<<"_id", "_sequence">>)

\* The fields that are instances of _ContainerField.
ContainerFields == <<"data", "tags">>

\* _ContainerField.__key__.
ContainerFieldKey(f, inst) ==
    HashModelKey(<<"container", f, HashModelHashKey(inst["_id"])>>)

\* field._delete(self) for each container field: Container.clear is DEL.
RECURSIVE DeleteContainerFields(_, _, _)
DeleteContainerFields(d, fields, inst) ==
    IF fields = <<>> THEN d
    ELSE DeleteContainerFields(Del(d, ContainerFieldKey(Head(fields), inst)),
                               Tail(fields), inst)

\* The container fields are cleared whatever for_update says.
ClearContainersAlways(d, inst, for_update) ==
    DeleteContainerFields(d, ContainerFields, inst)

\* Model.delete: if not for_update: the container fields are cleared.
ClearContainers(d, inst, for_update) ==
    IF ~for_update THEN DeleteContainerFields(d, ContainerFields, inst) ELSE d

\* Model.delete of a HashModel: nothing is done when load raises KeyError.
HashModelDelete(d, inst, for_update) ==
    LET hk == HashModelHashKey(inst["_id"])
    IN  IF ~Exists(d, hk) THEN d
        ELSE Del(ClearContainers(SRem(d, HashModelAll, hk), inst, for_update),
                 hk)

\* Model.save of a HashModel: the store after it and the instance with
\* its key.
HashModelSave(d, inst) ==
    LET unset == "_id" \notin DOMAIN inst \/ inst["_id"] = 0
        self == IF unset THEN ("_id" :> IncrValue(d, HashModelSeq)) @@ inst
                ELSE inst
        d1 == IF unset THEN Incr(d, HashModelSeq)
              ELSE HashModelDelete(d, inst, TRUE)
        hk == HashModelHashKey(self["_id"])
        data == [f \in DOMAIN self |->
                   IF f = "_id" THEN Str(self[f]) ELSE self[f]]
    IN  [db |-> SAdd(HMSet(Del(d1, hk), hk, data), HashModelAll, hk),
         self |-> self]

HashModelNames == {"hm", "hm-e"}

ContainerItems == {"k1", "k2"}

\* The keys of the records of the model.
HashModelIds == {1, 2}

InitContainer ==
    /\ db = EmptyDb
    /\ last = [op |-> "none", self |-> <<>>, cleared |-> {}]
    /\ procs = <<>>
    /\ ttl = <<>>

\* HashModel.create(name=...).
CreateHashModel(name) ==
    /\ IncrValue(db, HashModelSeq) \in HashModelIds
    /\ LET r == HashModelSave(db, ("name" :> name))
       IN /\ db' = r.db
          /\ last' = [op |-> "create", self |-> r.self, cleared |-> {}]
    /\ UNCHANGED <<procs, ttl>>

\* hm.name = name; hm.save(), for an instance that has its key.
SaveHashModel(pk, name) ==
    /\ LET r == HashModelSave(db, ("_id" :> pk) @@ ("name" :> name))
       IN /\ db' = r.db
          /\ last' = [op |-> "save", self |-> r.self, cleared |-> {}]
    /\ UNCHANGED <<procs, ttl>>

\* hm.delete(); cleared is what the call removed beside the primary hash
\* and the all index.
DeleteHashModel(pk) ==
    /\ db' = HashModelDelete(db, ("_id" :> pk), FALSE)
    /\ last' = [op |-> "delete", self |-> ("_id" :> pk),
                cleared |-> ((DOMAIN db) \ (DOMAIN db'))
                            \ {HashModelHashKey(pk), HashModelAll}]
    /\ UNCHANGED <<procs, ttl>>

\* hm.data.update({item: item}): Hash.update is HMSET on the field's key.
DataUpdate(pk, item) ==
    /\ db' = HMSet(db, ContainerFieldKey("data", ("_id" :> pk)),
                   (item :> item))
    /\ last' = [op |-> "update", self |-> ("_id" :> pk), cleared |-> {}]
    /\ UNCHANGED <<procs, ttl>>

\* hm.tags.add(item): SADD on the field's key.
TagsAdd(pk, item) ==
    /\ db' = SAdd(db, ContainerFieldKey("tags", ("_id" :> pk)), item)
    /\ last' = [op |-> "add", self |-> ("_id" :> pk), cleared |-> {}]
    /\ UNCHANGED <<procs, ttl>>

NextContainer ==
    \/ \E name \in HashModelNames : CreateHashModel(name)
    \/ \E pk \in HashModelIds, name \in HashModelNames : SaveHashModel(pk, name)
    \/ \E pk \in HashModelIds : DeleteHashModel(pk)
    \/ \E pk \in HashModelIds, item \in ContainerItems : DataUpdate(pk, item)
    \/ \E pk \in HashModelIds, item \in ContainerItems : TagsAdd(pk, item)

SpecContainer == InitContainer /\ [][NextContainer]_vars

\* What the store holds under the key of container field f of record pk.
ContainerOf(d, f, pk) ==
    IF ContainerFieldKey(f, ("_id" :> pk)) \in DOMAIN d
    THEN <<d[ContainerFieldKey(f, ("_id" :> pk))]>> ELSE <<>>

ContainerFieldSet == {ContainerFields[i] : i \in 1..Len(ContainerFields)}

\* C33: save() of a persisted record leaves every container field of
\* every record as it was; delete() of a persisted record leaves no
\* container field of that record in the store and every container field
\* of every other record as it was.
C33_ContainerFields ==
    [][/\ (last'.op = "save" /\ Exists(db, HashModelHashKey(last'.self["_id"])))
            => \A pk \in HashModelIds, f \in ContainerFieldSet :
                 ContainerOf(db', f, pk) = ContainerOf(db, f, pk)
       /\ (last'.op = "delete"
             /\ Exists(db, HashModelHashKey(last'.self["_id"])))
            => \A pk \in HashModelIds, f \in ContainerFieldSet :
                 ContainerOf(db', f, pk) =
                   IF pk = last'.self["_id"] THEN <<>>
                   ELSE ContainerOf(db, f, pk)]_vars

\* delete() has cleared both container fields of record 1, and record 2,
\* saved again under a new name, still has both of its own.
C33_Witness ==
    /\ last.op = "delete" /\ last.self["_id"] = 1
    /\ Cardinality(last.cleared) = 2
    /\ Exists(db, HashModelHashKey(2))
    /\ db[HashModelHashKey(2)]["name"] = "hm-e"
    /\ ContainerOf(db, "data", 2) # <<>>
    /\ ContainerOf(db, "tags", 2) # <<>>

---------------------------------------------------------------------------
(* Database.execute_command: one command on one pooled connection.         *)
(*                                                                         *)
(* procs is the call: pc, its position; cmd; retry, the connection's       *)
(* retry_on_timeout; held, the number of connections taken from the pool   *)
(* and not released; sends, the outcome of each send_command so far; e,    *)
(* the exception the first send raised; read, the outcome of               *)
(* parse_response.  db counts, for each command, how often the server      *)
(* received it: a send that raises may or may not have reached it.         *)

CommandNames == {"GET", "INCR"}

SendOutcomes == {"ok", "ConnectionError", "TimeoutError", "DataError"}

ReadOutcomes == {"ok", "ConnectionError", "TimeoutError", "ResponseError"}

\* A call starts while the server has received the command this often.
ReceivedSizes == {0, 1}

NoCommand == [pc |-> "idle", cmd |-> "", retry |-> FALSE, held |-> 0,
              sends |-> <<>>, e |-> "none", read |-> "none",
              status |-> "done"]

InitCommand ==
    /\ db = [c \in CommandNames |-> 0]
    /\ last = [op |-> "none", self |-> "", sends |-> <<>>, read |-> "none",
               retry |-> FALSE, status |-> "done"]
    /\ procs = NoCommand
    /\ ttl = <<>>

\* The first send is answered by a second one whatever it raised.
ReraiseNever(e, retry) == FALSE

\* except (ConnectionError, TimeoutError) as e: if not
\* connection.retry_on_timeout and isinstance(e, TimeoutError): raise.
Reraise(e, retry) == ~retry /\ e = "TimeoutError"

\* The server has the command after a send that returned, and may have it
\* after a send that raised a connection error or a timeout.
Received(cmd, outcome, reached) ==
    IF outcome = "ok" \/ (reached /\ outcome \in {"ConnectionError",
                                                   "TimeoutError"})
    THEN [db EXCEPT ![cmd] = @ + 1] ELSE db

\* connection = pool.get_connection(command_name, **options).
GetConnection(cmd, retry) ==
    /\ procs.pc = "idle"
    /\ db[cmd] \in ReceivedSizes
    /\ procs' = [NoCommand EXCEPT !.pc = "send", !.cmd = cmd,
                                  !.retry = retry, !.held = procs.held + 1]
    /\ UNCHANGED <<db, last, ttl>>

\* The first connection.send_command(*args).
SendCommand(outcome, reached) ==
    /\ procs.pc = "send"
    /\ db' = Received(procs.cmd, outcome, reached)
    /\ procs' = [procs EXCEPT
                   !.sends = Append(@, outcome),
                   !.e = IF outcome = "ok" THEN "none" ELSE outcome,
                   !.status = IF outcome = "DataError" THEN outcome ELSE @,
                   !.pc = CASE outcome = "ok" -> "parse"
                            [] outcome = "DataError" -> "release"
                            [] OTHER -> "except"]
    /\ UNCHANGED <<last, ttl>>

\* The except clause: disconnect, then raise, or send on a fresh connection.
Except(outcome, reached) ==
    /\ procs.pc = "except"
    /\ IF Reraise(procs.e, procs.retry)
       THEN /\ procs' = [procs EXCEPT !.pc = "release", !.status = procs.e]
            /\ db' = db
       ELSE /\ procs' = [procs EXCEPT
                           !.sends = Append(@, outcome),
                           !.status = IF outcome = "ok" THEN @ ELSE outcome,
                           !.pc = IF outcome = "ok" THEN "parse"
                                  ELSE "release"]
            /\ db' = Received(procs.cmd, outcome, reached)
    /\ UNCHANGED <<last, ttl>>

\* return self.parse_response(connection, command_name, **options).
ParseResponse(outcome) ==
    /\ procs.pc = "parse"
    /\ procs' = [procs EXCEPT !.read = outcome, !.pc = "release",
                              !.status = IF outcome = "ok" THEN "done"
                                         ELSE outcome]
    /\ UNCHANGED <<db, last, ttl>>

\* finally: pool.release(connection); the call returns or raises.
Release ==
    /\ procs.pc = "release"
    /\ procs' = [NoCommand EXCEPT !.held = procs.held - 1]
    /\ last' = [op |-> "execute_command", self |-> procs.cmd,
                sends |-> procs.sends, read |-> procs.read,
                retry |-> procs.retry, status |-> procs.status]
    /\ UNCHANGED <<db, ttl>>

NextCommand ==
    \/ \E cmd \in CommandNames, retry \in BOOLEAN : GetConnection(cmd, retry)
    \/ \E outcome \in SendOutcomes, reached \in BOOLEAN :
         SendCommand(outcome, reached)
    \/ \E outcome \in SendOutcomes, reached \in BOOLEAN :
         Except(outcome, reached)
    \/ \E outcome \in ReadOutcomes : ParseResponse(outcome)
    \/ Release

SpecCommand == InitCommand /\ [][NextCommand]_vars

\* C34: a call sends its command at most twice, and twice only when the
\* first send raised a connection error, or a timeout with
\* retry_on_timeout set; once the response is being read no send follows,
\* so a call whose first send returned has sent once; and a call that has
\* ended holds no connection, whatever it returned or raised.
C34_AtMostOneResend ==
    /\ [](/\ Len(procs.sends) <= 2
          /\ Len(procs.sends) = 2 =>
               \/ procs.sends[1] = "ConnectionError"
               \/ procs.sends[1] = "TimeoutError" /\ procs.retry
          /\ (procs.sends # <<>> /\ procs.sends[1] = "ok") =>
               Len(procs.sends) = 1
          /\ procs.held \in {0, 1}
          /\ procs.pc = "idle" <=> procs.held = 0
          /\ last.op = "execute_command" =>
               /\ Len(last.sends) \in {1, 2}
               /\ Len(last.sends) = 2 =>
                    \/ last.sends[1] = "ConnectionError"
                    \/ last.sends[1] = "TimeoutError" /\ last.retry)
    /\ [][procs.pc \in {"parse", "release"} =>
            \/ procs'.sends = procs.sends
            \/ procs'.pc = "idle"]_vars

\* A call whose first send raised a connection error sent a second time,
\* failed to read the response, and has released its connection.
C34_Witness ==
    /\ last.op = "execute_command"
    /\ last.sends = <<"ConnectionError", "ok">>
    /\ last.read = "ConnectionError"
    /\ last.status = "ConnectionError"
    /\ procs.pc = "idle" /\ procs.held = 0

---------------------------------------------------------------------------
(* Concurrent save() and delete() on one primary key: every writer holds   *)
(* an instance of record 1 and calls save() on it with its own status, or  *)
(* delete() on it, once; the store commands of the calls interleave.       *)

\* Caller p calls delete() on its instance.
DeleteStart(p) ==
    /\ p \in Savers
    /\ procs[p].op = "idle"
    /\ procs' = [procs EXCEPT ![p] = Normalize(DeleteCall(SavedInst(p)))]
    /\ UNCHANGED <<db, last, ttl>>

NextWriters == \E p \in Callers : SaveStart(p) \/ DeleteStart(p) \/ CallerStep(p)

SpecWriters == InitSave /\ [][NextWriters]_vars

\* No call is under way.
Quiescent == \A p \in Callers : procs[p].status # "run"

\* C35: whenever every save() and delete() call on the key has returned,
\* the record, if persisted, is in exactly the index entries its stored
\* values imply (in one Absolute set of each field and no other), and no
\* index container, the all index included, holds the key of a record
\* that is not persisted.
C35_ConsistentWhenQuiescent ==
    Quiescent =>
        /\ \A hk \in Persisted(db) : RecordIndexed(db, hk)
        /\ \A k \in IndexContainers(db) : Members(db, k) \subseteq Persisted(db)

---------------------------------------------------------------------------
(* save() that raises: instances that have no value for the indexed field  *)
(* status, as Message(content=...) and Message(_id=k, content=...), are    *)
(* saved beside complete ones.  Calls do not overlap.                      *)

\* Instances without a status and without a primary key.
PartialInsts == {("content" :> t) : t \in Texts}

\* Instances without a status, with a primary key.
PartialKeyedInsts == {(PkField :> k) @@ i : k \in 1..MaxId, i \in PartialInsts}

NextFailing ==
    \/ Resume
    \/ \E inst \in NewInsts \cup PartialInsts : Create(inst)
    \/ \E inst \in KeyedInsts \cup PartialKeyedInsts : Update(inst)

SpecFailing == Init /\ [][NextFailing]_vars

\* The keyspace without the sequence counter.
ApartFromSequence(d) == [k \in (DOMAIN d) \ {SeqKey} |-> d[k]]

\* C36: a create() or save() that raises leaves every key of the store,
\* apart from the sequence counter, as it was before the call.
C36_FailedSaveChangesNothing ==
    [][(last'.op \in {"create", "save"} /\ last'.status = "raised") =>
          ApartFromSequence(db') = ApartFromSequence(db)]_vars

---------------------------------------------------------------------------
(* incr() and the stored value.                                            *)

\* C37: after incr(status, n) on a persisted record has returned, the
\* record's key is not in the Absolute set of the status that was stored
\* immediately before the call, whatever status the instance held in
\* memory.
C37_IncrRetractsStored ==
    [][(last'.op = "incr" /\ last'.status = "done") =>
          LET hk == GetPrimaryHashKey(last'.before[PkField])
          IN  hk \notin SMembers(db', AbsKey("status", Load(db, hk)["status"]))]_vars

---------------------------------------------------------------------------
(* incr() on a field that is not indexed: the class has a fourth field,    *)
(* hits = IntegerField(), and its instances carry a value for it.  Calls   *)
(* do not overlap.                                                         *)

HitsValues == {0, 1}

\* Instances of the class with the counter, without a primary key.
HitsInsts ==
    {("status" :> 1) @@ ("content" :> "huey") @@ ("hits" :> h) : h \in HitsValues}

\* instance.incr(Message.hits, n) on the instance of a persisted record as
\* load() returns it.
IncrHits(hk, n) ==
    /\ last = NoCall
    /\ hk \in Persisted(db)
    /\ Load(db, hk)["hits"] + n <= MaxCount
    /\ LET r == Run(db, IncrCall(Load(db, hk), "hits", n))
       IN  /\ db' = r.db
           /\ last' = [before |-> Load(db, hk), by |-> n] @@ Outcome("incr", r)
    /\ UNCHANGED <<procs, ttl>>

NextHits ==
    \/ Resume
    \/ IncrValue(db, SeqKey) \in QueryIds /\ \E inst \in HitsInsts : Create(inst)
    \/ \E hk \in HashKeys, n \in IncrAmounts : IncrHits(hk, n)
    \/ \E hk \in Persisted(db) : Delete(Load(db, hk))

SpecHits == Init /\ [][NextHits]_vars

\* C38: incr(hits, n) changes the field hits of the record's primary hash
\* and no other key of the store: no container is created, removed or
\* changed; and whenever no record is persisted, the sequence key is the
\* only key left.
C38_IncrUnindexed ==
    /\ [](Persisted(db) = {} => (DOMAIN db) \subseteq {SeqKey})
    /\ [][last'.op = "incr" =>
            LET hk == GetPrimaryHashKey(last'.before[PkField])
            IN  /\ DOMAIN db' = DOMAIN db
                /\ \A k \in (DOMAIN db) \ {hk} : db'[k] = db[k]
                /\ \A f \in (DOMAIN db[hk]) \ {"hits"} : db'[hk][f] = db[hk][f]
                /\ db'[hk]["hits"] = Str(last'.before["hits"] + last'.by)
                /\ last'.self["hits"] = last'.before["hits"] + last'.by]_vars

---------------------------------------------------------------------------
(* save() of instances built with an explicit primary key, 0 included, as  *)
(* Message(_id=0, ...).save().  Calls do not overlap.                      *)

\* The keys the callers assign.
AssignedKeys == {0, 1}

AssignedInsts == {(PkField :> k) @@ i : k \in AssignedKeys, i \in NewInsts}

\* instance.save() of an instance whose key the caller assigned.
SaveAssigned(inst) ==
    /\ last = NoCall
    /\ IncrValue(db, SeqKey) \in QueryIds
    /\ LET r == Run(db, SaveCall(inst))
       IN  /\ db' = r.db
           /\ last' = [before |-> inst] @@ Outcome("save", r)
    /\ UNCHANGED <<procs, ttl>>

NextAssigned ==
    \/ Resume
    \/ IncrValue(db, SeqKey) \in QueryIds /\ \E inst \in NewInsts : Create(inst)
    \/ \E inst \in AssignedInsts : SaveAssigned(inst)

SpecAssigned == Init /\ [][NextAssigned]_vars

\* C39: save() of an instance whose primary key the caller assigned keeps
\* that key on the instance, takes no key from the sequence, runs
\* delete(for_update=True) first, and writes the record under the
\* assigned key.
C39_AssignedKeyKept ==
    [][(last'.op = "save" /\ PkField \in DOMAIN last'.before) =>
          /\ last'.self[PkField] = last'.before[PkField]
          /\ "INCR" \notin Commands(last'.log)
          /\ "EXISTS" \in Commands(last'.log)
          /\ Exists(db', GetPrimaryHashKey(last'.before[PkField]))]_vars

---------------------------------------------------------------------------
(* Graph.store and Graph.delete: container writes inside db.atomic().      *)
(*                                                                         *)
(* db holds the hash of the graph and its sorted set.  procs is the        *)
(* writer: pipes, the stack of pipelines of its thread; pc, "idle" or the  *)
(* method it is in; triple; i, the number of container writes it has       *)
(* made in the block; entry, the store as it was when the block was        *)
(* entered; n, the number of blocks it has entered.  A reader of another   *)
(* client finds the store as it is in any state.                           *)

GraphNamespace == "g"

\* Graph.__init__: self._h and self._z.
GraphHash == GraphNamespace

GraphIndex == GraphNamespace \o "-idx"

Triples == {<<"a", "b", "c">>, <<"x", "y", "z">>}

\* '::'.join((''.join((p1, p2, p3)), v1, v2, v3)).
PermutationKey(names, v1, v2, v3) ==
    names \o "::" \o v1 \o "::" \o v2 \o "::" \o v3

\* Graph.keys_for_values: the six permutations, in the order of
\* itertools.permutations.
KeysForValues(t) ==
    <<PermutationKey("spo", t[1], t[2], t[3]),
      PermutationKey("sop", t[1], t[3], t[2]),
      PermutationKey("pso", t[2], t[1], t[3]),
      PermutationKey("pos", t[2], t[3], t[1]),
      PermutationKey("osp", t[3], t[1], t[2]),
      PermutationKey("ops", t[3], t[2], t[1])>>

\* self.serialize({'s': s, 'p': p, 'o': o}).
Serialized(t) == t[1] \o "," \o t[2] \o "," \o t[3]

\* HDEL: a hash that loses its last field is gone.
HDel(d, k, f) ==
    LET rest == (DOMAIN HGetAll(d, k)) \ {f}
    IN  IF rest = {} THEN Del(d, k)
        ELSE Put(d, k, [x \in rest |-> HGetAll(d, k)[x]])

\* The container writes of the body of Graph.store, in order: for each key
\* self._h[key] = data, then self._z[key] = 0.
StoreWrites(t) ==
    [i \in 1..(2 * Len(KeysForValues(t))) |->
       IF i % 2 = 1
       THEN [c |-> "HSET", k |-> GraphHash,
             m |-> KeysForValues(t)[(i + 1) \div 2], v |-> Serialized(t)]
       ELSE [c |-> "ZADD", k |-> GraphIndex,
             m |-> KeysForValues(t)[i \div 2], v |-> 0]]

\* The container writes of the body of Graph.delete: del self._h[key],
\* then del self._z[key].
DeleteWrites(t) ==
    [i \in 1..(2 * Len(KeysForValues(t))) |->
       IF i % 2 = 1
       THEN [c |-> "HDEL", k |-> GraphHash,
             m |-> KeysForValues(t)[(i + 1) \div 2], v |-> 0]
       ELSE [c |-> "ZREM", k |-> GraphIndex,
             m |-> KeysForValues(t)[i \div 2], v |-> 0]]

\* Hash.__setitem__ / __delitem__ and ZSet.__setitem__ / __delitem__ call
\* self.database.hset / hdel / zadd / zrem: the command is executed on the
\* store at once.
ContainerWrite(d, c) ==
    CASE c.c = "HSET" -> HMSet(d, c.k, (c.m :> c.v))
      [] c.c = "HDEL" -> HDel(d, c.k, c.m)
      [] c.c = "ZADD" -> ZAdd(d, c.k, c.m, c.v)
      [] c.c = "ZREM" -> ZRem(d, c.k, c.m)

\* A block is entered while this many have been entered.
GraphBlocks == {0, 1, 2}

GraphIdle == [pipes |-> <<>>, pc |-> "idle", triple |-> <<>>, i |-> 0,
              entry |-> <<>>, n |-> 0]

InitGraph ==
    /\ db = EmptyDb
    /\ last = [op |-> "none", status |-> "done"]
    /\ procs = GraphIdle
    /\ ttl = <<>>

BodyWrites == IF procs.pc = "store" THEN StoreWrites(procs.triple)
              ELSE DeleteWrites(procs.triple)

\* graph.store(s, p, o) or graph.delete(s, p, o): with self.walrus.atomic().
GraphEnter(op, t) ==
    /\ procs.pc = "idle"
    /\ procs.n \in GraphBlocks
    /\ procs' = [pipes |-> GetTransaction(procs.pipes), pc |-> op,
                 triple |-> t, i |-> 0, entry |-> db, n |-> procs.n + 1]
    /\ UNCHANGED <<db, last, ttl>>

\* The next container write of the body.
GraphWrite ==
    /\ procs.pc \in {"store", "delete"}
    /\ procs.i < Len(BodyWrites)
    /\ db' = ContainerWrite(db, BodyWrites[procs.i + 1])
    /\ procs' = [procs EXCEPT !.i = @ + 1]
    /\ UNCHANGED <<last, ttl>>

\* The body is done: __exit__ commits the pipeline of the block.
GraphExit ==
    /\ procs.pc \in {"store", "delete"}
    /\ procs.i = Len(BodyWrites)
    /\ db' = Execute(db, Last(procs.pipes))
    /\ procs' = [GraphIdle EXCEPT !.pipes = Front(procs.pipes),
                                  !.n = procs.n]
    /\ last' = [op |-> procs.pc, status |-> "done"]
    /\ UNCHANGED ttl

\* The next statement of the body raises (serialize or a store command
\* fails): __exit__ drops the pipeline of the block, the exception goes on.
GraphRaise ==
    /\ procs.pc \in {"store", "delete"}
    /\ procs.i < Len(BodyWrites)
    /\ procs' = [GraphIdle EXCEPT !.pipes = Front(procs.pipes),
                                  !.n = procs.n]
    /\ last' = [op |-> procs.pc, status |-> "raised"]
    /\ UNCHANGED <<db, ttl>>

NextGraph ==
    \/ \E op \in {"store", "delete"}, t \in Triples : GraphEnter(op, t)
    \/ GraphWrite
    \/ GraphExit
    \/ GraphRaise

SpecGraph == InitGraph /\ [][NextGraph]_vars

KeySet(t) == {KeysForValues(t)[i] : i \in 1..Len(KeysForValues(t))}

\* C40: in every state, which is what a reader may find, the store holds
\* of a triple all six keys or none, in the hash and in the sorted set
\* alike; and a block that raised has left the store as it was when the
\* block was entered.
C40_StoreIsOneUnit ==
    /\ [](\A t \in Triples :
            /\ KeySet(t) \cap DOMAIN HGetAll(db, GraphHash) \in {{}, KeySet(t)}
            /\ KeySet(t) \cap DOMAIN ZScores(db, GraphIndex)
                 = KeySet(t) \cap DOMAIN HGetAll(db, GraphHash))
    /\ [][last'.status = "raised" => db' = procs.entry]_vars

====
